---- MODULE Spec2Model ----
(***************************************************************************)
(* A model of the response parser of the kraken client (src/parser.go):    *)
(* the dispatch of Parse on the destination's type, the nine endpoint      *)
(* decoders, and the classifier of the API's in-band error strings.        *)
(*                                                                         *)
(* Go strings whose content the code inspects are sequences of one-        *)
(* character strings, so that splitting and comparing them is computed.    *)
(* A Go slice or map is a record [isNil, val]: nil and empty-but-present   *)
(* are different values, as they are in Go.                                *)
(***************************************************************************)
EXTENDS Integers, Sequences, FiniteSets, TLC

VARIABLES
    v,           \* the destination handed to Parse: its dynamic type, and
                 \* whether the pointer is nil
    dest,        \* the value the destination points to
    pre,         \* dest as it was when the last Parse was called
    payload,     \* the payload of the last Parse
    order,       \* the order in which the last Parse ranged over result's keys
    ret,         \* how the last Parse ended: ok, error or panic
    decoded,     \* whether the last Parse handed its payload to json.Unmarshal
    errStrings,  \* classifier run: the []string handed to parseErrors
    errsOut,     \* classifier run: what parseErrors produced
    cstage,      \* classifier run: "call" before the call, "done" after it
    calls,       \* concurrent run: each caller's payload, destination, locals
                 \* and position in Parse
    client,      \* client run: the HTTPClient built by NewHTTPClient, the
                 \* requests its transport was handed, and the last operation
    instrumented \* instrumented run: the metric vectors, the calls the inner
                 \* client received, and the last operation

parseVars == <<v, dest, pre, payload, order, ret, decoded>>
errorVars == <<errStrings, errsOut, cstage>>
otherVars == <<calls, client, instrumented>>
vars == <<parseVars, errorVars, otherVars>>

\* a run that is not the one under way
Idle == [idle |-> TRUE]

-----------------------------------------------------------------------------
(* Bounds *)

\* longest []string handed to parseErrors in the classifier runs
MaxErrs == 2

\* longest wire error array of well-formed strings in the payloads of Parse
MaxWireErrs == 2

-----------------------------------------------------------------------------
(* Go values *)

\* a nil slice or nil map
NilVal == [isNil |-> TRUE, val |-> <<>>]

\* a non-nil slice (val a sequence) or map (val a function)
Some(x) == [isNil |-> FALSE, val |-> x]

\* len() of a slice: 0 for nil
GoLen(s) == IF s.isNil THEN 0 ELSE Len(s.val)

\* the sequences over S of length up to n
SeqsUpTo(S, n) == UNION {[1..k -> S] : k \in 0..n}

-----------------------------------------------------------------------------
(* The sentinel errors' texts, which are also the wire's category tokens *)

sEGeneral == <<"E", "G", "e", "n", "e", "r", "a", "l">>
sEAPI == <<"E", "A", "P", "I">>
sEQuery == <<"E", "Q", "u", "e", "r", "y">>
sEOrder == <<"E", "O", "r", "d", "e", "r">>
sETrade == <<"E", "T", "r", "a", "d", "e">>
sEFunding == <<"E", "F", "u", "n", "d", "i", "n", "g">>
sEService == <<"E", "S", "e", "r", "v", "i", "c", "e">>
sESession == <<"E", "S", "e", "s", "s", "i", "o", "n">>

-----------------------------------------------------------------------------
(* The error classifier *)

\* SplitN2 as it would be were the string cut at its last colon
SplitLastColon(s) ==
    LET colons == {i \in 1..Len(s) : s[i] = ":"}
    IN  IF colons = {}
        THEN <<s>>
        ELSE LET m == CHOOSE i \in colons : \A j \in colons : i >= j
             IN  <<SubSeq(s, 1, m - 1), SubSeq(s, m + 1, Len(s))>>

\* strings.SplitN(s, ":", 2): s cut at its first colon, or s alone
SplitN2(s) ==
    LET colons == {i \in 1..Len(s) : s[i] = ":"}
    IN  IF colons = {}
        THEN <<s>>
        ELSE LET m == CHOOSE i \in colons : \A j \in colons : i <= j
             IN  <<SubSeq(s, 1, m - 1), SubSeq(s, m + 1, Len(s))>>

\* the ASCII lower-case form of a string (of the letters the tokens begin with)
ToLowerFirst(s) ==
    IF Len(s) > 0 /\ s[1] = "E" THEN <<"e">> \o Tail(s) ELSE s

\* SwitchCategory as it would be were the first letter compared without case
SwitchCategoryFold(part) ==
    CASE ToLowerFirst(part) = ToLowerFirst(sEGeneral) -> "ErrGeneral"
      [] ToLowerFirst(part) = ToLowerFirst(sEAPI) -> "ErrAPI"
      [] ToLowerFirst(part) = ToLowerFirst(sEQuery) -> "ErrQuery"
      [] ToLowerFirst(part) = ToLowerFirst(sEOrder) -> "ErrOrder"
      [] ToLowerFirst(part) = ToLowerFirst(sETrade) -> "ErrTrade"
      [] ToLowerFirst(part) = ToLowerFirst(sEFunding) -> "ErrFunding"
      [] ToLowerFirst(part) = ToLowerFirst(sEService) -> "ErrService"
      [] ToLowerFirst(part) = ToLowerFirst(sESession) -> "ErrSession"
      [] OTHER -> "ErrAPIUnknown"

\* the switch of parseErrors: the sentinel a first part selects
SwitchCategory(part) ==
    CASE part = sEGeneral -> "ErrGeneral"
      [] part = sEAPI -> "ErrAPI"
      [] part = sEQuery -> "ErrQuery"
      [] part = sEOrder -> "ErrOrder"
      [] part = sETrade -> "ErrTrade"
      [] part = sEFunding -> "ErrFunding"
      [] part = sEService -> "ErrService"
      [] part = sESession -> "ErrSession"
      [] OTHER -> "ErrAPIUnknown"

\* fmt.Errorf("%w:%s", sentinel, arg): an error wrapping the sentinel
Errorf(sentinel, arg) == [wraps |-> sentinel, arg |-> arg]

\* one iteration of the loop of parseErrors: the error stored in errs[i],
\* or a panic when errParts[1] is read from a one-element errParts
ClassifyOne(errString) ==
    LET errParts == SplitN2(errString)
        cat == SwitchCategory(errParts[1])
    IN  IF cat = "ErrAPIUnknown"
        THEN [panic |-> FALSE, err |-> Errorf("ErrAPIUnknown", errString)]
        ELSE IF Len(errParts) < 2
             THEN [panic |-> TRUE, err |-> Errorf("ErrAPIUnknown", <<>>)]
             ELSE [panic |-> FALSE, err |-> Errorf(cat, errParts[2])]

\* parseErrors keeping an empty, non-nil input as an empty, non-nil output
parseErrorsOfNil(strs) ==
    IF strs.isNil
    THEN [panic |-> FALSE, errs |-> NilVal]
    ELSE IF \E i \in 1..Len(strs.val) : ClassifyOne(strs.val[i]).panic
         THEN [panic |-> TRUE, errs |-> NilVal]
         ELSE [panic |-> FALSE,
               errs |-> Some([i \in 1..Len(strs.val) |-> ClassifyOne(strs.val[i]).err])]

\* parseErrors(errStrings []string) []error
parseErrors(strs) ==
    IF GoLen(strs) = 0
    THEN [panic |-> FALSE, errs |-> NilVal]
    ELSE IF \E i \in 1..Len(strs.val) : ClassifyOne(strs.val[i]).panic
         THEN [panic |-> TRUE, errs |-> NilVal]
         ELSE [panic |-> FALSE,
               errs |-> Some([i \in 1..Len(strs.val) |-> ClassifyOne(strs.val[i]).err])]

-----------------------------------------------------------------------------
(* JSON documents.  A value is its kind t and its content.  A number       *)
(* is the float64 n/d (d a power of two) that encoding/json reads it as;   *)
(* a string is a sequence of characters; an object is a function of keys.  *)

JAbsent == [t |-> "absent", absent |-> <<>>]
JNull == [t |-> "null", null |-> <<>>]
JNum(n, d) == [t |-> "num", num |-> <<n, d>>]
JInt(n) == JNum(n, 1)
JStr(s) == [t |-> "str", str |-> s]
JArr(s) == [t |-> "arr", arr |-> s]
JObj(f) == [t |-> "obj", obj |-> f]

\* the content of a value
Val(j) ==
    CASE j.t = "num" -> j.num
      [] j.t = "str" -> j.str
      [] j.t = "arr" -> j.arr
      [] j.t = "obj" -> j.obj
      [] OTHER -> <<>>

\* a key that is not there, or is null, leaves the Go field at its zero value
Missing(j) == j.t \in {"absent", "null"}

\* the value under a key of an object
Get(j, key) == IF key \in DOMAIN Val(j) THEN Val(j)[key] ELSE JAbsent

\* encoding/json matches a key to a field's name without regard to case
Fold(key) ==
    CASE key = "Error" -> "error"
      [] key = "Errors" -> "errors"
      [] key = "Result" -> "result"
      [] OTHER -> key

\* the value encoding/json stores in the struct field of that JSON name
\* (its tag, or without a tag the Go field's name)
Field(doc, name) ==
    LET keys == {k \in DOMAIN Val(doc) : Fold(k) = Fold(name)}
    IN  IF keys = {} THEN JAbsent ELSE Val(doc)[CHOOSE k \in keys : TRUE]

\* results of decoding into a Go type: the value, or a type error
Decoded(x) == [ok |-> TRUE, val |-> x]
TypeError == [ok |-> FALSE, val |-> <<>>]

\* string
DecodeString(j) ==
    IF Missing(j) THEN Decoded(<<>>)
    ELSE IF j.t = "str" THEN Decoded(Val(j)) ELSE TypeError

\* int, int64, uint64: a number with a fraction is a type error
DecodeInt(j) ==
    IF Missing(j) THEN Decoded(0)
    ELSE IF j.t = "num" /\ Val(j)[2] = 1 THEN Decoded(Val(j)[1]) ELSE TypeError

\* float32: kept as the fraction <<n, d>>
DecodeFloat(j) ==
    IF Missing(j) THEN Decoded(<<0, 1>>)
    ELSE IF j.t = "num" THEN Decoded(Val(j)) ELSE TypeError

\* []string
DecodeStrings(j) ==
    IF Missing(j) THEN Decoded(NilVal)
    ELSE IF j.t # "arr" THEN TypeError
    ELSE IF \E i \in 1..Len(Val(j)) : ~DecodeString(Val(j)[i]).ok THEN TypeError
    ELSE Decoded(Some([i \in 1..Len(Val(j)) |-> DecodeString(Val(j)[i]).val]))

\* []int, []uint64
DecodeInts(j) ==
    IF Missing(j) THEN Decoded(NilVal)
    ELSE IF j.t # "arr" THEN TypeError
    ELSE IF \E i \in 1..Len(Val(j)) : ~DecodeInt(Val(j)[i]).ok THEN TypeError
    ELSE Decoded(Some([i \in 1..Len(Val(j)) |-> DecodeInt(Val(j)[i]).val]))

\* map[string]interface{}: the values stay as they are on the wire
DecodeAnyMap(j) ==
    IF Missing(j) THEN Decoded(NilVal)
    ELSE IF j.t = "obj" THEN Decoded(Some(Val(j))) ELSE TypeError

\* the keys a range over a Go map visits
Keys(m) == IF m.isNil THEN {} ELSE DOMAIN m.val

-----------------------------------------------------------------------------
(* time.Time and decimal.Decimal *)

\* the zero time.Time
ZeroTime == [sec |-> 0, loc |-> "zero"]

\* time.Unix(sec, 0): the instant, in the local zone
Unix(sec) == [sec |-> sec, loc |-> "Local"]

\* t.UTC()
UTC(t) == [sec |-> t.sec, loc |-> "UTC"]

\* the RFC 3339 texts of the payloads, with the instant and zone of each
RFC3339Texts ==
    {<<<<"1", "9", "7", "0", "-", "0", "1", "-", "0", "1", "T", "0", "0", ":", "0", "0", ":", "0", "7", "Z">>, [sec |-> 7, loc |-> "UTC"]>>,
     <<<<"1", "9", "7", "0", "-", "0", "1", "-", "0", "1", "T", "0", "1", ":", "0", "0", ":", "0", "7", "+", "0", "1", ":", "0", "0">>, [sec |-> 7, loc |-> "+01:00"]>>}

\* time.Parse(time.RFC3339, s), on those texts; any other text is an error
TimeParse(s) ==
    IF \E p \in RFC3339Texts : p[1] = s
    THEN Decoded((CHOOSE p \in RFC3339Texts : p[1] = s)[2])
    ELSE TypeError

\* the zero decimal.Decimal
ZeroDecimal == [coef |-> 0, exp |-> 0]

DigitVal ==
    [c \in {"0", "1", "2", "3", "4", "5", "6", "7", "8", "9"} |->
        CASE c = "0" -> 0 [] c = "1" -> 1 [] c = "2" -> 2 [] c = "3" -> 3
          [] c = "4" -> 4 [] c = "5" -> 5 [] c = "6" -> 6 [] c = "7" -> 7
          [] c = "8" -> 8 [] c = "9" -> 9]

RECURSIVE DigitsValue(_)
\* the number a string of decimal digits denotes
DigitsValue(s) ==
    IF s = <<>> THEN 0
    ELSE DigitsValue(SubSeq(s, 1, Len(s) - 1)) * 10 + DigitVal[s[Len(s)]]

\* decimal.NewFromString(value), on strings without an exponent: the digits
\* with the point taken out are the coefficient, the count of digits after
\* the point the negated exponent
NewFromString(value) ==
    LET dots == {i \in 1..Len(value) : value[i] = "."}
        p == IF dots = {} THEN Len(value) + 1 ELSE CHOOSE i \in dots : TRUE
        intString == SubSeq(value, 1, p - 1) \o SubSeq(value, p + 1, Len(value))
        signed == Len(intString) > 0 /\ intString[1] \in {"+", "-"}
        digits == IF signed THEN Tail(intString) ELSE intString
    IN  IF \/ Cardinality(dots) > 1
           \/ Len(digits) = 0
           \/ \E i \in 1..Len(digits) : digits[i] \notin DOMAIN DigitVal
        THEN TypeError
        ELSE Decoded([coef |-> IF signed /\ intString[1] = "-"
                                 THEN 0 - DigitsValue(digits)
                                 ELSE DigitsValue(digits),
                      exp |-> IF dots = {} THEN 0 ELSE 0 - (Len(value) - p)])

-----------------------------------------------------------------------------
(* How a call ends, and what it leaves in the destination *)

Ok == [status |-> "ok", wraps |-> "", detail |-> <<>>]

\* fmt.Errorf("%w:...", ErrParse, ...)
ErrParse(detail) == [status |-> "error", wraps |-> "ErrParse", detail |-> detail]

Panic(detail) == [status |-> "panic", wraps |-> "", detail |-> detail]

\* a decoder's outcome
Out(r, d) == [ret |-> r, dest |-> d]

\* the destination pointed to by a nil pointer: there is none
NoDest == [none |-> TRUE]

\* *parsed = value, or parsed.field = ...: a nil parsed panics
Store(ptrNil, value) ==
    IF ptrNil THEN Out(Panic(<<"nil pointer dereference">>), NoDest)
    ELSE Out(Ok, value)

-----------------------------------------------------------------------------
(* The decoders of Time, SystemStatus and Assets *)

\* json.Unmarshal(payload, &msg): the syntax of the payload
SyntaxOK(p) == p.syntax = "json" /\ p.doc.t \in {"obj", "null"}

\* the top-level value of a field of msg
Top(p, name) == IF p.doc.t = "obj" THEN Field(p.doc, name) ELSE JAbsent

\* a struct field inside result
Sub(j, key) == IF j.t = "obj" THEN Get(j, key) ELSE JAbsent

StructOK(j) == Missing(j) \/ j.t = "obj"

\* json.Unmarshal into responsePublicTime
UnmarshalTime(p) ==
    LET errors == DecodeStrings(Top(p, "error"))
        result == Top(p, "result")
        unixtime == DecodeInt(Sub(result, "unixtime"))
        rfc1123 == DecodeString(Sub(result, "rfc1123"))
    IN  IF SyntaxOK(p) /\ errors.ok /\ StructOK(result) /\ unixtime.ok /\ rfc1123.ok
        THEN Decoded([Errors |-> errors.val,
                      Result |-> [UnixTimestamp |-> unixtime.val,
                                  RFC1123 |-> rfc1123.val]])
        ELSE TypeError

\* Parser.parsePublicTime
parsePublicTime(p, ptrNil, parsed) ==
    LET msg == UnmarshalTime(p)
        errs == parseErrors(msg.val.Errors)
    IN  IF ~msg.ok THEN Out(ErrParse(<<"json">>), parsed)
        ELSE IF errs.panic THEN Out(Panic(<<"index out of range">>), parsed)
        ELSE Store(ptrNil, [Errors |-> errs.errs,
                            Timestamp |-> Unix(msg.val.Result.UnixTimestamp)])

\* json.Unmarshal into responseSystemStatus
UnmarshalSystemStatus(p) ==
    LET errors == DecodeStrings(Top(p, "error"))
        result == Top(p, "result")
        status == DecodeString(Sub(result, "status"))
        timestamp == DecodeString(Sub(result, "timestamp"))
    IN  IF SyntaxOK(p) /\ errors.ok /\ StructOK(result) /\ status.ok /\ timestamp.ok
        THEN Decoded([Errors |-> errors.val,
                      Result |-> [Status |-> status.val, Timestamp |-> timestamp.val]])
        ELSE TypeError

\* Parser.parseSystemStatus
parseSystemStatus(p, ptrNil, parsed) ==
    LET msg == UnmarshalSystemStatus(p)
        tm == TimeParse(msg.val.Result.Timestamp)
        errs == parseErrors(msg.val.Errors)
    IN  IF ~msg.ok THEN Out(ErrParse(<<"json">>), parsed)
        ELSE IF ~tm.ok THEN Out(ErrParse(<<"time">>), parsed)
        ELSE IF errs.panic THEN Out(Panic(<<"index out of range">>), parsed)
        ELSE Store(ptrNil, [Errors |-> errs.errs,
                            Status |-> msg.val.Result.Status,
                            Timestamp |-> UTC(tm.val)])

\* json.Unmarshal into one responsePublicAssetsResultAsset
UnmarshalAsset(j) ==
    LET class == DecodeString(Sub(j, "aclass"))
        altname == DecodeString(Sub(j, "altname"))
        decimals == DecodeInt(Sub(j, "decimals"))
        display == DecodeInt(Sub(j, "display_decimals"))
    IN  IF StructOK(j) /\ class.ok /\ altname.ok /\ decimals.ok /\ display.ok
        THEN Decoded([Class |-> class.val, AltName |-> altname.val,
                      Decimals |-> decimals.val, DisplayDecimals |-> display.val])
        ELSE TypeError

\* map[string]T: the object's values decoded one by one
MapOK(j, Elem(_)) ==
    Missing(j) \/ (j.t = "obj" /\ \A k \in DOMAIN Val(j) : Elem(Val(j)[k]).ok)

MapOf(j, Elem(_)) ==
    IF Missing(j) THEN NilVal ELSE Some([k \in DOMAIN Val(j) |-> Elem(Val(j)[k]).val])

\* json.Unmarshal into responsePublicAssets
UnmarshalAssets(p) ==
    LET errors == DecodeStrings(Top(p, "error"))
        result == Top(p, "result")
    IN  IF SyntaxOK(p) /\ errors.ok /\ MapOK(result, UnmarshalAsset)
        THEN Decoded([Errors |-> errors.val, Result |-> MapOf(result, UnmarshalAsset)])
        ELSE TypeError

\* the Asset of a wire record had the key of the record not been its name
AssetUnnamed(name, asset) ==
    [Name |-> "",
     Class |-> asset.Class,
     AltName |-> asset.AltName,
     Precision |-> asset.Decimals,
     DisplayPrecision |-> asset.DisplayDecimals]

\* Parser.parseAssets: the Asset stored for one wire record
AssetOf(name, asset) ==
    [Name |-> name,
     Class |-> asset.Class,
     AltName |-> asset.AltName,
     Precision |-> asset.Decimals,
     DisplayPrecision |-> asset.DisplayDecimals]

\* Parser.parseAssets
parseAssets(p, ptrNil, parsed) ==
    LET msg == UnmarshalAssets(p)
        errs == parseErrors(msg.val.Errors)
        assets == [name \in Keys(msg.val.Result) |->
                    AssetOf(name, msg.val.Result.val[name])]
    IN  IF ~msg.ok THEN Out(ErrParse(<<"json">>), parsed)
        ELSE IF errs.panic THEN Out(Panic(<<"index out of range">>), parsed)
        ELSE Store(ptrNil, [Errors |-> errs.errs, Assets |-> Some(assets)])

-----------------------------------------------------------------------------
(* The decoders of AssetPairs and Tickers *)

\* [][]float32
DecodeFloatRows(j) ==
    IF Missing(j) THEN Decoded(NilVal)
    ELSE IF j.t # "arr" THEN TypeError
    ELSE IF \E i \in 1..Len(Val(j)) :
                /\ ~Missing(Val(j)[i])
                /\ \/ Val(j)[i].t # "arr"
                   \/ \E n \in 1..Len(Val(Val(j)[i])) : ~DecodeFloat(Val(Val(j)[i])[n]).ok
         THEN TypeError
    ELSE Decoded(Some([i \in 1..Len(Val(j)) |->
            IF Missing(Val(j)[i]) THEN NilVal
            ELSE Some([n \in 1..Len(Val(Val(j)[i])) |-> DecodeFloat(Val(Val(j)[i])[n]).val])]))

\* json.Unmarshal into one responsePublicAssetPairResultPair
UnmarshalAssetPair(j) ==
    LET str == [k \in {"altname", "wsname", "aclass_base", "base", "aclass_quote",
                       "quote", "lot", "fee_volume_currency"} |->
                    DecodeString(Sub(j, k))]
        int == [k \in {"pair_decimals", "lot_decimals", "lot_multiplier",
                       "margin_call", "margin_stop"} |-> DecodeInt(Sub(j, k))]
        ints == [k \in {"leverage_buy", "leverage_sell"} |-> DecodeInts(Sub(j, k))]
        rows == [k \in {"fees", "fees_maker"} |-> DecodeFloatRows(Sub(j, k))]
        ordermin == DecodeFloat(Sub(j, "ordermin"))
    IN  IF /\ StructOK(j)
           /\ \A k \in DOMAIN str : str[k].ok
           /\ \A k \in DOMAIN int : int[k].ok
           /\ \A k \in DOMAIN ints : ints[k].ok
           /\ \A k \in DOMAIN rows : rows[k].ok
           /\ ordermin.ok
        THEN Decoded([AltName |-> str["altname"].val,
                      WSName |-> str["wsname"].val,
                      AClassBase |-> str["aclass_base"].val,
                      Base |-> str["base"].val,
                      AClassQuote |-> str["aclass_quote"].val,
                      Quote |-> str["quote"].val,
                      Lot |-> str["lot"].val,
                      PairDecimals |-> int["pair_decimals"].val,
                      LotDecimals |-> int["lot_decimals"].val,
                      LotMultiplier |-> int["lot_multiplier"].val,
                      LeverageBuy |-> ints["leverage_buy"].val,
                      LeverageSell |-> ints["leverage_sell"].val,
                      Fees |-> rows["fees"].val,
                      FeesMaker |-> rows["fees_maker"].val,
                      FeeVolumeCurrency |-> str["fee_volume_currency"].val,
                      MarginCalls |-> int["margin_call"].val,
                      MarginStop |-> int["margin_stop"].val,
                      OrderMin |-> ordermin.val])
        ELSE TypeError

\* json.Unmarshal into responsePublicAssetPairs, whose fields carry no tag:
\* they are matched by their Go names, Errors and Result
UnmarshalAssetPairs(p) ==
    LET errors == DecodeStrings(Top(p, "Errors"))
        result == Top(p, "Result")
    IN  IF SyntaxOK(p) /\ errors.ok /\ MapOK(result, UnmarshalAssetPair)
        THEN Decoded([Errors |-> errors.val,
                      Result |-> MapOf(result, UnmarshalAssetPair)])
        ELSE TypeError

\* int(f) of a float: the fraction dropped
Trunc(f) == IF f[1] >= 0 THEN f[1] \div f[2] ELSE 0 - ((0 - f[1]) \div f[2])

\* Parser.parseFees: fee[0] and fee[1] of every fee, or a panic on a short one
parseFees(fees) ==
    IF \E i \in 1..GoLen(fees) : GoLen(fees.val[i]) < 2
    THEN [panic |-> TRUE, val |-> NilVal]
    ELSE [panic |-> FALSE,
          val |-> Some([i \in 1..GoLen(fees) |->
                    [Volume |-> Trunc(fees.val[i].val[1]),
                     Percentage |-> fees.val[i].val[2]]])]

\* the AssetPair that parseAssetPairs builds of one pair of msg.Result
AssetPairOf(pair) ==
    [AltName |-> pair.AltName,
     WebSocketName |-> pair.WSName,
     AssetClassBase |-> pair.AClassBase,
     Base |-> pair.Base,
     AssetClassQuote |-> pair.AClassQuote,
     Quote |-> pair.Quote,
     Lot |-> pair.Lot,
     PairPrecision |-> pair.PairDecimals,
     LotPrecision |-> pair.LotDecimals,
     LotMultiplier |-> pair.LotMultiplier,
     LeverageBuy |-> pair.LeverageBuy,
     LeverageSell |-> pair.LeverageSell,
     FeesTaker |-> parseFees(pair.Fees).val,
     FeesMaker |-> parseFees(pair.FeesMaker).val,
     FeeVolumeCurrency |-> pair.FeeVolumeCurrency,
     MarginCalls |-> pair.MarginCalls,
     MarginStop |-> pair.MarginStop,
     OrderMin |-> pair.OrderMin]

\* Parser.parseAssetPairs
parseAssetPairs(p, ptrNil, parsed) ==
    LET msg == UnmarshalAssetPairs(p)
        errs == parseErrors(msg.val.Errors)
        names == Keys(msg.val.Result)
        pairs == [name \in names |-> AssetPairOf(msg.val.Result.val[name])]
    IN  IF ~msg.ok THEN Out(ErrParse(<<"json">>), parsed)
        ELSE IF \E name \in names :
                    \/ parseFees(msg.val.Result.val[name].Fees).panic
                    \/ parseFees(msg.val.Result.val[name].FeesMaker).panic
             THEN Out(Panic(<<"index out of range">>), parsed)
        ELSE IF errs.panic THEN Out(Panic(<<"index out of range">>), parsed)
        ELSE Store(ptrNil, [Errors |-> errs.errs, Pairs |-> Some(pairs)])

\* json.Unmarshal into one responsePublicTickerInformation
UnmarshalTickerInformation(j) ==
    LET strs == [k \in {"a", "b", "c", "v", "p", "l", "h"} |-> DecodeStrings(Sub(j, k))]
        trades == DecodeInts(Sub(j, "t"))
        open == DecodeString(Sub(j, "o"))
    IN  IF StructOK(j) /\ (\A k \in DOMAIN strs : strs[k].ok) /\ trades.ok /\ open.ok
        THEN Decoded([Ask |-> strs["a"].val,
                      Bid |-> strs["b"].val,
                      LastClose |-> strs["c"].val,
                      Volume |-> strs["v"].val,
                      VolumeWeightedAveragePrice |-> strs["p"].val,
                      NumberOfTrades |-> trades.val,
                      Low |-> strs["l"].val,
                      High |-> strs["h"].val,
                      Open |-> open.val])
        ELSE TypeError

\* json.Unmarshal into responsePublicTicker, whose fields carry no tag
UnmarshalTicker(p) ==
    LET errors == DecodeStrings(Top(p, "Errors"))
        result == Top(p, "Result")
    IN  IF SyntaxOK(p) /\ errors.ok /\ MapOK(result, UnmarshalTickerInformation)
        THEN Decoded([Errors |-> errors.val,
                      Result |-> MapOf(result, UnmarshalTickerInformation)])
        ELSE TypeError

\* the steps of a function in the order the code takes them: the first that
\* does not pass ends the function with an error or a panic
FirstFailure(steps) ==
    LET bad == {i \in 1..Len(steps) : steps[i] # "ok"}
    IN  IF bad = {} THEN "ok" ELSE steps[CHOOSE i \in bad : \A j \in bad : i <= j]

\* s[i] of a slice, i from 0: in range, or a panic
InRange(s, i) == IF GoLen(s) > i THEN "ok" ELSE "panic"

\* decimal.NewFromString(text) with its error wrapped in ErrParse
DecimalStep(text) == IF NewFromString(text).ok THEN "ok" ELSE "error"

\* decimal.NewFromString(s[i]): the index, then the parse
DecimalAt(s, i) == IF GoLen(s) > i THEN DecimalStep(s.val[i + 1]) ELSE "panic"

\* s[i] once the steps have passed
At(s, i) == s.val[i + 1]

\* parseAskBid had its second argument been the timestamp of the entry
parseAskBidStamped(price, volume) ==
    [Price |-> NewFromString(price).val,
     Volume |-> ZeroDecimal,
     Timestamp |-> UTC(Unix(NewFromString(volume).val.coef))]

\* Parser.parseAskBid with a nil timestamp, as parseTicker calls it
parseAskBid(price, volume) ==
    [Price |-> NewFromString(price).val,
     Volume |-> NewFromString(volume).val,
     Timestamp |-> ZeroTime]

\* Parser.parseClose
parseClose(price, volume) ==
    [Price |-> NewFromString(price).val, Volume |-> NewFromString(volume).val]

\* Parser.parseTicker: how it ends
parseTickerSteps(ticker) ==
    <<InRange(ticker.Ask, 0), InRange(ticker.Ask, 2),
      DecimalAt(ticker.Ask, 0), DecimalAt(ticker.Ask, 2),
      InRange(ticker.Bid, 0), InRange(ticker.Bid, 2),
      DecimalAt(ticker.Bid, 0), DecimalAt(ticker.Bid, 2),
      InRange(ticker.LastClose, 0), InRange(ticker.LastClose, 1),
      DecimalAt(ticker.LastClose, 0), DecimalAt(ticker.LastClose, 1),
      DecimalAt(ticker.Volume, 0), DecimalAt(ticker.Volume, 1),
      DecimalAt(ticker.VolumeWeightedAveragePrice, 0),
      DecimalAt(ticker.VolumeWeightedAveragePrice, 1),
      DecimalAt(ticker.Low, 0), DecimalAt(ticker.Low, 1),
      DecimalAt(ticker.High, 0), DecimalAt(ticker.High, 1),
      DecimalStep(ticker.Open),
      InRange(ticker.NumberOfTrades, 0), InRange(ticker.NumberOfTrades, 1)>>

\* Parser.parseTicker: the Ticker it returns when every step passes
parseTicker(pair, ticker) ==
    [Pair |-> pair,
     Ask |-> parseAskBid(At(ticker.Ask, 0), At(ticker.Ask, 2)),
     Bid |-> parseAskBid(At(ticker.Bid, 0), At(ticker.Bid, 2)),
     LastClose |-> parseClose(At(ticker.LastClose, 0), At(ticker.LastClose, 1)),
     VolumeToday |-> NewFromString(At(ticker.Volume, 0)).val,
     VolumeLast24Hours |-> NewFromString(At(ticker.Volume, 1)).val,
     VolumeWeightedAveragePriceToday |->
        NewFromString(At(ticker.VolumeWeightedAveragePrice, 0)).val,
     VolumeWeightedAveragePriceLast24Hours |->
        NewFromString(At(ticker.VolumeWeightedAveragePrice, 1)).val,
     NumberOfTradesToday |-> At(ticker.NumberOfTrades, 0),
     NumberOfTradesLast24Hours |-> At(ticker.NumberOfTrades, 1),
     LowToday |-> NewFromString(At(ticker.Low, 0)).val,
     LowLast24Hours |-> NewFromString(At(ticker.Low, 1)).val,
     HighToday |-> NewFromString(At(ticker.High, 0)).val,
     HighLast24Hours |-> NewFromString(At(ticker.High, 1)).val,
     Open |-> NewFromString(ticker.Open).val]

\* how a failed step ends the call
Failure(step, what) ==
    IF step = "error" THEN ErrParse(<<what>>) ELSE Panic(<<"index or type assertion">>)

\* Parser.parseTickers; ord is the order in which the range visits the pairs
parseTickers(p, ptrNil, parsed, ord) ==
    LET msg == UnmarshalTicker(p)
        errs == parseErrors(msg.val.Errors)
        steps == [i \in 1..Len(ord) |->
                    FirstFailure(parseTickerSteps(msg.val.Result.val[ord[i]]))]
        tickers == [pair \in Keys(msg.val.Result) |->
                        parseTicker(pair, msg.val.Result.val[pair])]
    IN  IF ~msg.ok THEN Out(ErrParse(<<"json">>), parsed)
        ELSE IF FirstFailure(steps) # "ok"
             THEN Out(Failure(FirstFailure(steps), "decimal"), parsed)
        ELSE IF errs.panic THEN Out(Panic(<<"index out of range">>), parsed)
        ELSE Store(ptrNil, [Errors |-> errs.errs, Result |-> Some(tickers)])

-----------------------------------------------------------------------------
(* The decoders of OHLCs, OrderBook, RecentTrades and RecentSpreads, which *)
(* take the elements of result out of interface{} values                   *)

RECURSIVE GCD(_, _)
GCD(a, b) == IF b = 0 THEN a ELSE GCD(b, a % b)

\* new(big.Rat).SetFloat64(f).Num(), read as an integer: the numerator of
\* the float's fraction in lowest terms (of a float that is not negative)
RatNum(f) == f[1] \div GCD(f[1], f[2])

RECURSIVE Pow(_, _)
Pow(b, n) == IF n = 0 THEN 1 ELSE b * Pow(b, n - 1)

RECURSIVE Log2(_)
Log2(d) == IF d <= 1 THEN 0 ELSE 1 + Log2(d \div 2)

RECURSIVE StripZeros(_)
\* a decimal with the zeros at the end of its coefficient moved to its exponent
StripZeros(d) ==
    IF d.coef # 0 /\ d.coef % 10 = 0
    THEN StripZeros([coef |-> d.coef \div 10, exp |-> d.exp + 1])
    ELSE d

\* decimal.NewFromFloat(f): the shortest decimal that reads back as f; of
\* the fraction n/2^k that is n*5^k / 10^k without the zeros at its end
NewFromFloat(f) ==
    IF f[1] = 0 THEN ZeroDecimal
    ELSE StripZeros([coef |-> f[1] * Pow(5, Log2(f[2])), exp |-> 0 - Log2(f[2])])

\* d.IntPart(): the decimal without its fraction
IntPart(d) ==
    IF d.exp >= 0 THEN d.coef * Pow(10, d.exp)
    ELSE IF d.coef >= 0 THEN d.coef \div Pow(10, 0 - d.exp)
    ELSE 0 - ((0 - d.coef) \div Pow(10, 0 - d.exp))

\* v[i].(T) of a []interface{}: the index in range and the element a T
TypeAssert(row, i, kind) ==
    IF Len(row) > i /\ row[i + 1].t = kind THEN "ok" ELSE "panic"

\* decimal.NewFromString(v[i].(string))
StringDecimalAt(row, i) ==
    IF TypeAssert(row, i, "str") = "ok" THEN DecimalStep(Val(row[i + 1])) ELSE "panic"

\* the loop over one pair's value: v.([]interface{}), and of every element
\* x.([]interface{}) and the row parser
PairSteps(value, RowSteps(_)) ==
    IF value.t # "arr" THEN "panic"
    ELSE FirstFailure([i \in 1..Len(Val(value)) |->
            IF Val(value)[i].t # "arr" THEN "panic"
            ELSE FirstFailure(RowSteps(Val(Val(value)[i])))])

\* the range over result of the three decoders with a cursor: how each key
\* in ord ends (LastStep for "last", whose value is then stored in
\* parsed.LastID), the first key that fails, and whether LastID was stored
\* before it
RangeSteps(result, ord, ptrNil, LastStep(_), RowSteps(_)) ==
    [i \in 1..Len(ord) |->
        IF ord[i] = "last"
        THEN IF LastStep(result.val["last"]) # "ok" THEN LastStep(result.val["last"])
             ELSE IF ptrNil THEN "panic" ELSE "ok"
        ELSE PairSteps(result.val[ord[i]], RowSteps)]

FirstFailureAt(steps) ==
    LET bad == {i \in 1..Len(steps) : steps[i] # "ok"}
    IN  IF bad = {} THEN Len(steps) + 1 ELSE CHOOSE i \in bad : \A j \in bad : i <= j

LastStored(steps, ord) ==
    \E i \in 1..Len(ord) : ord[i] = "last" /\ i < FirstFailureAt(steps)

\* the pairs of result
PairKeys(result) == Keys(result) \ {"last"}

\* json.Unmarshal into responsePublicOHLC, whose fields carry no tag
UnmarshalOHLC(p) ==
    LET errors == DecodeStrings(Top(p, "Errors"))
        result == DecodeAnyMap(Top(p, "Result"))
    IN  IF SyntaxOK(p) /\ errors.ok /\ result.ok
        THEN Decoded([Errors |-> errors.val, Result |-> result.val])
        ELSE TypeError

\* "last" of OHLC and RecentSpreads: v.(float64)
FloatLastStep(value) == IF value.t = "num" THEN "ok" ELSE "panic"

\* Parser.parseOHLC: how it ends
parseOHLCSteps(row) ==
    <<StringDecimalAt(row, 1), StringDecimalAt(row, 2), StringDecimalAt(row, 3),
      StringDecimalAt(row, 4), StringDecimalAt(row, 5), StringDecimalAt(row, 6),
      TypeAssert(row, 0, "num"), TypeAssert(row, 7, "num")>>

\* Parser.parseOHLC: the OHLC it returns when every step passes
parseOHLC(row) ==
    [Time |-> UTC(Unix(RatNum(Val(row[1])))),
     Open |-> NewFromString(Val(row[2])).val,
     High |-> NewFromString(Val(row[3])).val,
     Low |-> NewFromString(Val(row[4])).val,
     Close |-> NewFromString(Val(row[5])).val,
     VolumeWeightedAveragePrice |-> NewFromString(Val(row[6])).val,
     Volume |-> NewFromString(Val(row[7])).val,
     Count |-> RatNum(Val(row[8]))]

\* a range over a pair's rows that missed the first of them
PairRowsAfterFirst(j) == IF Len(Val(j)) > 0 THEN Tail(Val(j)) ELSE Val(j)

\* range v.([]interface{}): the rows of a pair, in their order
PairRows(j) == Val(j)

\* the rows of every pair, parsed
RowsOf(result, Row(_)) ==
    [k \in PairKeys(result) |->
        Some([i \in 1..Len(PairRows(result.val[k])) |-> Row(Val(PairRows(result.val[k])[i]))])]

\* Parser.parseOHLCs; ord is the order in which the range visits the keys.
\* parsed.LastID is stored inside the range and parsed.Result after it;
\* parsed.Errors is not assigned.
parseOHLCs(p, ptrNil, parsed, ord) ==
    LET msg == UnmarshalOHLC(p)
        result == msg.val.Result
        steps == RangeSteps(result, ord, ptrNil, FloatLastStep, parseOHLCSteps)
        ranged == IF LastStored(steps, ord)
                  THEN [parsed EXCEPT !.LastID = RatNum(Val(result.val["last"]))]
                  ELSE parsed
    IN  IF ~msg.ok THEN Out(ErrParse(<<"json">>), parsed)
        ELSE IF FirstFailure(steps) # "ok"
             THEN Out(Failure(FirstFailure(steps), "decimal"), ranged)
        ELSE IF ptrNil THEN Out(Panic(<<"nil pointer dereference">>), NoDest)
        ELSE Out(Ok, [ranged EXCEPT !.Result = Some(RowsOf(result, parseOHLC))])

\* [][]interface{}
DecodeRows(j) ==
    IF Missing(j) THEN Decoded(NilVal)
    ELSE IF j.t # "arr" THEN TypeError
    ELSE IF \E i \in 1..Len(Val(j)) : ~Missing(Val(j)[i]) /\ Val(j)[i].t # "arr" THEN TypeError
    ELSE Decoded(Some([i \in 1..Len(Val(j)) |->
            IF Missing(Val(j)[i]) THEN <<>> ELSE Val(Val(j)[i])]))

\* json.Unmarshal into one responsePublicOrderBookResultAskBid
UnmarshalAskBid(j) ==
    LET asks == DecodeRows(Sub(j, "asks"))
        bids == DecodeRows(Sub(j, "bids"))
    IN  IF StructOK(j) /\ asks.ok /\ bids.ok
        THEN Decoded([Asks |-> asks.val, Bids |-> bids.val])
        ELSE TypeError

\* json.Unmarshal into responsePublicOrderBook
UnmarshalOrderBook(p) ==
    LET errors == DecodeStrings(Top(p, "error"))
        result == Top(p, "result")
    IN  IF SyntaxOK(p) /\ errors.ok /\ MapOK(result, UnmarshalAskBid)
        THEN Decoded([Error |-> errors.val, Result |-> MapOf(result, UnmarshalAskBid)])
        ELSE TypeError

\* one level of the order book: how its three type assertions end
LevelSteps(row) == <<TypeAssert(row, 0, "num"), TypeAssert(row, 1, "num"), TypeAssert(row, 2, "num")>>

\* one level of the order book
Level(row) ==
    [Price |-> NewFromFloat(Val(row[1])),
     Volume |-> NewFromFloat(Val(row[2])),
     Timestamp |-> Unix(IntPart(NewFromFloat(Val(row[3]))))]

Levels(rows) == Some([i \in 1..GoLen(rows) |-> Level(rows.val[i])])

\* Parser.parseOrderBook
parseOrderBook(p, ptrNil, parsed) ==
    LET msg == UnmarshalOrderBook(p)
        errs == parseErrors(msg.val.Error)
        pairs == Keys(msg.val.Result)
        side(rows) == FirstFailure([i \in 1..GoLen(rows) |->
                            FirstFailure(LevelSteps(rows.val[i]))])
    IN  IF ~msg.ok THEN Out(ErrParse(<<"json">>), parsed)
        ELSE IF \E pair \in pairs :
                    \/ side(msg.val.Result.val[pair].Asks) # "ok"
                    \/ side(msg.val.Result.val[pair].Bids) # "ok"
             THEN Out(Panic(<<"index or type assertion">>), parsed)
        ELSE IF errs.panic THEN Out(Panic(<<"index out of range">>), parsed)
        ELSE Store(ptrNil,
                [Errors |-> errs.errs,
                 Asks |-> Some([pair \in pairs |-> Levels(msg.val.Result.val[pair].Asks)]),
                 Bids |-> Some([pair \in pairs |-> Levels(msg.val.Result.val[pair].Bids)])])

\* json.Unmarshal into responsePublicRecentTrades and
\* responsePublicRecentSpreads
UnmarshalRecent(p) ==
    LET errors == DecodeStrings(Top(p, "error"))
        result == DecodeAnyMap(Top(p, "result"))
    IN  IF SyntaxOK(p) /\ errors.ok /\ result.ok
        THEN Decoded([Error |-> errors.val, Result |-> result.val])
        ELSE TypeError

\* A uint64 cursor is kept as its decimal numeral without leading zeros,
\* since 2^64 - 1 is beyond the integers of the model checker.
MaxUint64 ==
    <<"1", "8", "4", "4", "6", "7", "4", "4", "0", "7",
      "3", "7", "0", "9", "5", "5", "1", "6", "1", "5">>

MaxUint32 == <<"4", "2", "9", "4", "9", "6", "7", "2", "9", "5">>

ZeroUint64 == <<"0">>

RECURSIVE TrimZeros(_)
\* a numeral without its leading zeros
TrimZeros(s) == IF Len(s) > 1 /\ s[1] = "0" THEN TrimZeros(Tail(s)) ELSE s

\* a <= b, of numerals without leading zeros
NumeralLeq(a, b) ==
    \/ Len(a) < Len(b)
    \/ /\ Len(a) = Len(b)
       /\ \/ a = b
          \/ \E i \in 1..Len(a) :
                /\ SubSeq(a, 1, i - 1) = SubSeq(b, 1, i - 1)
                /\ DigitVal[a[i]] < DigitVal[b[i]]

\* strconv.ParseUint(s, 10, 32)
ParseUint32(s) ==
    IF /\ Len(s) > 0
       /\ \A i \in 1..Len(s) : s[i] \in DOMAIN DigitVal
       /\ NumeralLeq(TrimZeros(s), MaxUint32)
    THEN Decoded(TrimZeros(s))
    ELSE TypeError

\* strconv.ParseUint(s, 10, 64): digits only, and a value up to 2^64 - 1
ParseUint(s) ==
    IF /\ Len(s) > 0
       /\ \A i \in 1..Len(s) : s[i] \in DOMAIN DigitVal
       /\ NumeralLeq(TrimZeros(s), MaxUint64)
    THEN Decoded(TrimZeros(s))
    ELSE TypeError

\* "last" of RecentTrades: strconv.ParseUint(v.(string), 10, 64)
StringLastStep(value) ==
    IF value.t # "str" THEN "panic"
    ELSE IF ParseUint(Val(value)).ok THEN "ok" ELSE "error"

\* Parser.parseRecentTrade: how it ends
parseRecentTradeSteps(row) ==
    <<StringDecimalAt(row, 0), StringDecimalAt(row, 1), TypeAssert(row, 2, "num"),
      TypeAssert(row, 3, "str"), TypeAssert(row, 4, "str"), TypeAssert(row, 5, "str")>>

\* the switch on orderAction had it taken the upper-case letters too
OrderActionFolded(orderAction) ==
    CASE orderAction \in {<<"b">>, <<"B">>} -> "OrderActionBuy"
      [] orderAction \in {<<"s">>, <<"S">>} -> "OrderActionSell"
      [] OTHER -> "OrderActionUnknown"

\* Parser.parseRecentTrade: switch orderAction
OrderActionOf(orderAction) ==
    CASE orderAction = <<"b">> -> "OrderActionBuy"
      [] orderAction = <<"s">> -> "OrderActionSell"
      [] OTHER -> "OrderActionUnknown"

\* Parser.parseRecentTrade: switch orderType
OrderTypeOf(orderType) ==
    CASE orderType = <<"l">> -> "OrderTypeLimit"
      [] orderType = <<"m">> -> "OrderTypeMarket"
      [] OTHER -> "OrderTypeUnknown"

\* Parser.parseRecentTrade: the trade it returns when every step passes
parseRecentTrade(row) ==
    [Price |-> NewFromString(Val(row[1])).val,
     Volume |-> NewFromString(Val(row[2])).val,
     Time |-> Unix(IntPart(NewFromFloat(Val(row[3])))),
     Action |-> OrderActionOf(Val(row[4])),
     Type |-> OrderTypeOf(Val(row[5])),
     Miscellaneous |-> Val(row[6])]

\* Parser.parseRecentTrades; ord is the order in which the range visits the
\* keys.  parsed.LastID is stored inside the range, parsed.Trades and then
\* parsed.Errors after it.
parseRecentTrades(p, ptrNil, parsed, ord) ==
    LET msg == UnmarshalRecent(p)
        result == msg.val.Result
        errs == parseErrors(msg.val.Error)
        steps == RangeSteps(result, ord, ptrNil, StringLastStep, parseRecentTradeSteps)
        ranged == IF LastStored(steps, ord)
                  THEN [parsed EXCEPT !.LastID = ParseUint(Val(result.val["last"])).val]
                  ELSE parsed
        stored == [ranged EXCEPT !.Trades = Some(RowsOf(result, parseRecentTrade))]
    IN  IF ~msg.ok THEN Out(ErrParse(<<"json">>), parsed)
        ELSE IF FirstFailure(steps) # "ok"
             THEN Out(Failure(FirstFailure(steps), "decimal or cursor"), ranged)
        ELSE IF ptrNil THEN Out(Panic(<<"nil pointer dereference">>), NoDest)
        ELSE IF errs.panic THEN Out(Panic(<<"index out of range">>), stored)
        ELSE Out(Ok, [stored EXCEPT !.Errors = errs.errs])

\* Parser.parseRecentSpread: how it ends
parseRecentSpreadSteps(row) ==
    <<TypeAssert(row, 0, "num"), StringDecimalAt(row, 1), StringDecimalAt(row, 2)>>

\* Parser.parseRecentSpread: the spread it returns when every step passes
parseRecentSpread(row) ==
    [Timestamp |-> Unix(IntPart(NewFromFloat(Val(row[1])))),
     Bid |-> NewFromString(Val(row[2])).val,
     Ask |-> NewFromString(Val(row[3])).val]

\* Parser.parseRecentSpreads; ord is the order in which the range visits the
\* keys.  parsed.LastID is stored inside the range, parsed.Spreads and then
\* parsed.Errors after it.
parseRecentSpreads(p, ptrNil, parsed, ord) ==
    LET msg == UnmarshalRecent(p)
        result == msg.val.Result
        errs == parseErrors(msg.val.Error)
        steps == RangeSteps(result, ord, ptrNil, FloatLastStep, parseRecentSpreadSteps)
        ranged == IF LastStored(steps, ord)
                  THEN [parsed EXCEPT !.LastID = RatNum(Val(result.val["last"]))]
                  ELSE parsed
        stored == [ranged EXCEPT !.Spreads = Some(RowsOf(result, parseRecentSpread))]
    IN  IF ~msg.ok THEN Out(ErrParse(<<"json">>), parsed)
        ELSE IF FirstFailure(steps) # "ok"
             THEN Out(Failure(FirstFailure(steps), "decimal"), ranged)
        ELSE IF ptrNil THEN Out(Panic(<<"nil pointer dereference">>), NoDest)
        ELSE IF errs.panic THEN Out(Panic(<<"index out of range">>), stored)
        ELSE Out(Ok, [stored EXCEPT !.Errors = errs.errs])

-----------------------------------------------------------------------------
(* The classifier on its own: every input up to MaxErrs strings *)

Tokens ==
    {sEGeneral, sEAPI, sEQuery, sEOrder, sETrade, sEFunding, sEService, sESession}

\* first parts that are no category token: another case, another word,
\* and a token cut short
OtherPrefixes ==
    {<<"e", "G", "e", "n", "e", "r", "a", "l">>, <<"E", "O", "t", "h", "e", "r">>,
     <<"E", "A", "P">>}

\* what follows the first colon
Messages == {<<>>, <<"x">>, <<"a", ":", "b">>}

ErrorStrings ==
    (Tokens \cup OtherPrefixes)
        \cup {p \o <<":">> \o m : p \in Tokens \cup OtherPrefixes, m \in Messages}

ErrorInputs == {NilVal} \cup {Some(s) : s \in SeqsUpTo(ErrorStrings, MaxErrs)}

NoResult == [panic |-> FALSE, errs |-> NilVal]

InitErrors ==
    /\ errStrings \in ErrorInputs
    /\ errsOut = NoResult
    /\ cstage = "call"
    /\ v = [typ |-> "", ptrNil |-> TRUE]
    /\ dest = [none |-> TRUE]
    /\ pre = [none |-> TRUE]
    /\ payload = [syntax |-> "none", doc |-> JNull]
    /\ order = <<>>
    /\ ret = [status |-> "none", wraps |-> "", detail |-> <<>>]
    /\ decoded = FALSE
    /\ calls = Idle /\ client = Idle /\ instrumented = Idle

CallParseErrors ==
    /\ cstage = "call"
    /\ errsOut' = parseErrors(errStrings)
    /\ cstage' = "done"
    /\ UNCHANGED errStrings
    /\ UNCHANGED parseVars
    /\ UNCHANGED otherVars

NextErrors == CallParseErrors

SpecErrors == InitErrors /\ [][NextErrors]_vars

-----------------------------------------------------------------------------
(* Parse: the dispatch on the destination's type *)

KnownTypes ==
    {"*kraken.Time", "*kraken.SystemStatus", "*kraken.Assets", "*kraken.AssetPairs",
     "*kraken.Tickers", "*kraken.OHLCs", "*kraken.OrderBook", "*kraken.RecentTrades",
     "*kraken.RecentSpreads"}

\* the decoders whose outcome can depend on the order of their range
RangedTypes ==
    {"*kraken.Tickers", "*kraken.OHLCs", "*kraken.RecentTrades", "*kraken.RecentSpreads"}

\* a nil destination let through as a success
InvalidTargetAccepted(parsed) == [ret |-> Ok, dest |-> parsed, decoded |-> FALSE]

\* if v == nil: the call fails before the payload is looked at
InvalidTarget(parsed) ==
    [ret |-> ErrParse(<<"cannot parse to nil pointer">>), dest |-> parsed,
     decoded |-> FALSE]

\* a destination of another type reported without its type
UnsupportedTypeUnnamed(vv, parsed) ==
    [ret |-> ErrParse(<<"unsupported type">>), dest |-> parsed, decoded |-> FALSE]

\* the default branch of the type switch: the error names the type (%T)
UnsupportedType(vv, parsed) ==
    [ret |-> ErrParse(<<"unsupported type", vv.typ>>), dest |-> parsed,
     decoded |-> FALSE]

\* a type switch that looked into the payload: a result with "unixtime" is
\* taken for a Time, whatever the destination
TypeSwitchOnPayload(vv, p) ==
    IF vv.typ \in KnownTypes /\ Sub(Top(p, "result"), "unixtime").t # "absent"
    THEN "*kraken.Time"
    ELSE vv.typ

\* switch t := v.(type): the case is chosen by the dynamic type of v
TypeSwitch(vv, p) == vv.typ

\* Parser.Parse(payload, v): vv.typ is v's dynamic type ("" for a nil
\* interface), vv.ptrNil whether the pointer in it is nil, parsed the value
\* it points to
Parse(p, vv, parsed, ord) ==
    LET run(out) == [ret |-> out.ret, dest |-> out.dest, decoded |-> TRUE]
    IN  IF vv.typ = ""
        THEN InvalidTarget(parsed)
        ELSE CASE TypeSwitch(vv, p) = "*kraken.Time" -> run(parsePublicTime(p, vv.ptrNil, parsed))
               [] TypeSwitch(vv, p) = "*kraken.SystemStatus" ->
                    run(parseSystemStatus(p, vv.ptrNil, parsed))
               [] TypeSwitch(vv, p) = "*kraken.Assets" -> run(parseAssets(p, vv.ptrNil, parsed))
               [] TypeSwitch(vv, p) = "*kraken.AssetPairs" ->
                    run(parseAssetPairs(p, vv.ptrNil, parsed))
               [] TypeSwitch(vv, p) = "*kraken.Tickers" ->
                    run(parseTickers(p, vv.ptrNil, parsed, ord))
               [] TypeSwitch(vv, p) = "*kraken.OHLCs" -> run(parseOHLCs(p, vv.ptrNil, parsed, ord))
               [] TypeSwitch(vv, p) = "*kraken.OrderBook" ->
                    run(parseOrderBook(p, vv.ptrNil, parsed))
               [] TypeSwitch(vv, p) = "*kraken.RecentTrades" ->
                    run(parseRecentTrades(p, vv.ptrNil, parsed, ord))
               [] TypeSwitch(vv, p) = "*kraken.RecentSpreads" ->
                    run(parseRecentSpreads(p, vv.ptrNil, parsed, ord))
               [] OTHER -> UnsupportedType(vv, parsed)

\* the zero value of each result type, as the callers allocate it
\* (msg := Time{} and so on)
Zero(typ) ==
    CASE typ = "*kraken.Time" -> [Errors |-> NilVal, Timestamp |-> ZeroTime]
      [] typ = "*kraken.SystemStatus" ->
            [Errors |-> NilVal, Status |-> <<>>, Timestamp |-> ZeroTime]
      [] typ = "*kraken.Assets" -> [Errors |-> NilVal, Assets |-> NilVal]
      [] typ = "*kraken.AssetPairs" -> [Errors |-> NilVal, Pairs |-> NilVal]
      [] typ = "*kraken.Tickers" -> [Errors |-> NilVal, Result |-> NilVal]
      [] typ = "*kraken.OHLCs" -> [Errors |-> NilVal, Result |-> NilVal, LastID |-> 0]
      [] typ = "*kraken.OrderBook" -> [Errors |-> NilVal, Asks |-> NilVal, Bids |-> NilVal]
      [] typ = "*kraken.RecentTrades" ->
            [Errors |-> NilVal, Trades |-> NilVal, LastID |-> ZeroUint64]
      [] typ = "*kraken.RecentSpreads" ->
            [Errors |-> NilVal, Spreads |-> NilVal, LastID |-> 0]
      [] OTHER -> [other |-> TRUE]

-----------------------------------------------------------------------------
(* The destinations and payloads of the model *)

\* a nil interface, a pointer (nil or not) to each result type, and values
\* of other types: a pointer to a struct of the caller's and a Time passed
\* by value
Destinations ==
    {[typ |-> "", ptrNil |-> TRUE]}
        \cup {[typ |-> ty, ptrNil |-> n] : ty \in KnownTypes, n \in BOOLEAN}
        \cup {[typ |-> "*kraken_test.invalidDataType", ptrNil |-> FALSE],
              [typ |-> "*kraken_test.invalidDataType", ptrNil |-> TRUE],
              [typ |-> "kraken.Time", ptrNil |-> FALSE]}

ZeroDest(vv) == IF vv.typ = "" \/ vv.ptrNil THEN NoDest ELSE Zero(vv.typ)

\* the wire error strings of the payloads: one of a known category, one of
\* none
WireErrStrings == {JStr(sEAPI \o <<":", "x">>), JStr(<<"o", "o", "p", "s">>)}

\* the wire error arrays: absent, empty, up to MaxWireErrs strings, an
\* array that holds a number, and a category token without its colon
WireErrorArrays ==
    {JAbsent, JArr(<<JInt(5)>>), JArr(<<JStr(sEQuery)>>)}
        \cup {JArr(s) : s \in SeqsUpTo(WireErrStrings, MaxWireErrs)}

\* the well-formed ones: arrays of strings the classifier accepts
WellFormedErrorArrays == {JArr(s) : s \in SeqsUpTo(WireErrStrings, MaxWireErrs)}

\* a JSON object of the given keys, without those that are absent
Obj(f) == JObj([k \in {x \in DOMAIN f : f[x].t # "absent"} |-> f[k]])

\* the envelope {errKey: e, "result": r}
Envelope(errKey, e, r) ==
    [syntax |-> "json", doc |-> Obj((errKey :> e) @@ ("result" :> r))]

\* a nil or empty payload, and bytes that are no JSON
BrokenPayloads == {[syntax |-> "empty", doc |-> JNull], [syntax |-> "invalid", doc |-> JNull]}

NoPayload == [syntax |-> "none", doc |-> JNull]

\* the tickers of the payloads: a complete one, one whose high is no
\* decimal, and one whose ask has two elements
GoodTicker ==
    Obj([a |-> JArr(<<JStr(<<"1", ".", "5">>), JStr(<<"1">>), JStr(<<"0", ".", "2", "5">>)>>), b |-> JArr(<<JStr(<<"2", "0">>), JStr(<<"1">>), JStr(<<"0", ".", "2", "5">>)>>),
                 c |-> JArr(<<JStr(<<"1", ".", "5">>), JStr(<<"0", ".", "2", "5">>)>>), v |-> JArr(<<JStr(<<"1", ".", "5">>), JStr(<<"2", "0">>)>>),
                 p |-> JArr(<<JStr(<<"1", ".", "5">>), JStr(<<"2", "0">>)>>), t |-> JArr(<<JInt(3), JInt(9)>>),
                 l |-> JArr(<<JStr(<<"1", ".", "5">>), JStr(<<"2", "0">>)>>), h |-> JArr(<<JStr(<<"1", ".", "5">>), JStr(<<"2", "0">>)>>), o |-> JStr(<<"1", ".", "5">>)])

BadDecimalTicker ==
    Obj([k \in DOMAIN Val(GoodTicker) |->
            IF k = "h" THEN JArr(<<JStr(<<"1", ".", "5">>), JStr(<<"x">>)>>) ELSE Val(GoodTicker)[k]])

ShortTicker ==
    Obj([k \in DOMAIN Val(GoodTicker) |->
            IF k = "a" THEN JArr(<<JStr(<<"1", ".", "5">>), JStr(<<"1">>)>>) ELSE Val(GoodTicker)[k]])

\* "last" cursors of RecentTrades: the one of the test, 2^64 - 1, 2^64,
\* leading zeros, and strings that are no decimal integer
Cursors ==
    {<<"1", "6", "4", "4", "1", "9", "1", "2", "6", "5",
       "9", "6", "9", "1", "0", "8", "8", "2", "0">>,
     MaxUint64,
     SubSeq(MaxUint64, 1, 19) \o <<"6">>,
     <<"0", "0", "7">>, <<"0">>, <<>>, <<"-", "1">>, <<"1", ".", "5">>}

\* a RecentTrades row with the given action and type
TradeRow(action, type) ==
    <<JStr(<<"1", ".", "5">>), JStr(<<"0", ".", "2", "5">>), JInt(61), JStr(action), JStr(type), JStr(<<>>)>>

\* a complete OHLC row
GoodRow == <<JInt(60), JStr(<<"1", ".", "5">>), JStr(<<"2", "0">>), JStr(<<"1", ".", "5">>), JStr(<<"2", "0">>), JStr(<<"1", ".", "5">>), JStr(<<"0", ".", "2", "5">>), JInt(11)>>

\* an OHLC row whose eight elements all differ
DistinctRow == <<JInt(61), JStr(<<"1", ".", "5">>), JStr(<<"2", "0">>), JStr(<<"1">>), JStr(<<"7">>), JStr(<<"2", ".", "5">>), JStr(<<"0", ".", "2", "5">>), JInt(12)>>

ResultsOf(typ) ==
    CASE typ = "*kraken.Time" ->
            {JAbsent,
             Obj([unixtime |-> JInt(7), rfc1123 |-> JStr(<<"x">>)]),
             Obj([unixtime |-> JNum(3, 2)]),
             Obj([unixtime |-> JStr(<<"7">>)])}
      [] typ = "*kraken.SystemStatus" ->
            {JAbsent,
             JObj(<<>>),
             Obj([status |-> JStr(<<"o", "n">>), timestamp |-> JStr(<<"1", "9", "7", "0", "-", "0", "1", "-", "0", "1", "T", "0", "0", ":", "0", "0", ":", "0", "7", "Z">>)]),
             Obj([status |-> JStr(<<"o", "n">>), timestamp |-> JStr(<<"1", "9", "7", "0", "-", "0", "1", "-", "0", "1", "T", "0", "1", ":", "0", "0", ":", "0", "7", "+", "0", "1", ":", "0", "0">>)]),
             Obj([status |-> JStr(<<"o", "n">>), timestamp |-> JStr(<<"x">>)]),
             Obj([status |-> JInt(1), timestamp |-> JStr(<<"1", "9", "7", "0", "-", "0", "1", "-", "0", "1", "T", "0", "0", ":", "0", "0", ":", "0", "7", "Z">>)])}
      [] typ = "*kraken.Assets" ->
            {JAbsent,
             JObj(<<>>),
             Obj([NANO |-> Obj([aclass |-> JStr(<<"c", "u", "r">>), altname |-> JStr(<<"x">>),
                                decimals |-> JInt(10), display_decimals |-> JInt(5)])]),
             Obj([NANO |-> Obj([aclass |-> JStr(<<"c", "u", "r">>), decimals |-> JInt(10)]),
                  XXBT |-> Obj([altname |-> JStr(<<"x">>), display_decimals |-> JInt(5)])]),
             Obj([NANO |-> Obj([decimals |-> JStr(<<"7">>)])]),
             Obj([NANO |-> Obj([name |-> JStr(<<"x">>), altname |-> JStr(<<"X", "X", "B", "T">>)]),
                  XXBT |-> JObj(<<>>),
                  ZUSD |-> JNull])}
      [] typ = "*kraken.AssetPairs" ->
            {JAbsent,
             Obj([XXBTZUSD |-> Obj([altname |-> JStr(<<"x">>), wsname |-> JStr(<<"x">>),
                    aclass_base |-> JStr(<<"c", "u", "r">>), base |-> JStr(<<"x">>), aclass_quote |-> JStr(<<"c", "u", "r">>),
                    quote |-> JStr(<<"x">>), lot |-> JStr(<<"x">>), pair_decimals |-> JInt(1),
                    lot_decimals |-> JInt(8), lot_multiplier |-> JInt(1),
                    leverage_buy |-> JArr(<<JInt(2), JInt(3)>>),
                    leverage_sell |-> JArr(<<JInt(2)>>),
                    fees |-> JArr(<<JArr(<<JInt(0), JNum(1, 4)>>),
                                    JArr(<<JNum(101, 2), JNum(1, 8)>>)>>),
                    fees_maker |-> JArr(<<JArr(<<JInt(0), JNum(1, 8)>>)>>),
                    fee_volume_currency |-> JStr(<<"x">>), margin_call |-> JInt(80),
                    margin_stop |-> JInt(40), ordermin |-> JNum(1, 2)])]),
             Obj([XXBTZUSD |-> Obj([altname |-> JStr(<<"x">>)]),
                  XETHZUSD |-> Obj([fees |-> JArr(<<JArr(<<JInt(0), JNum(1, 4)>>)>>)])]),
             Obj([XXBTZUSD |-> Obj([fees |-> JArr(<<JArr(<<JInt(0)>>)>>)])]),
             Obj([XXBTZUSD |-> Obj([altname |-> JInt(5)])])}
      [] typ = "*kraken.Tickers" ->
            {JAbsent,
             Obj([XXBTZUSD |-> GoodTicker]),
             Obj([XXBTZUSD |-> GoodTicker, XETHZUSD |-> BadDecimalTicker]),
             Obj([XXBTZUSD |-> ShortTicker]),
             Obj([XXBTZUSD |-> ShortTicker, XETHZUSD |-> BadDecimalTicker]),
             Obj([XXBTZUSD |-> Obj([a |-> JArr(<<JInt(5)>>)])])}
      [] typ = "*kraken.OHLCs" ->
            {JAbsent,
             Obj([last |-> JInt(5)]),
             Obj([XXBTZUSD |-> JArr(<<JArr(GoodRow)>>), last |-> JInt(5)]),
             Obj([XXBTZUSD |-> JArr(<<JArr(GoodRow), JArr(GoodRow)>>)]),
             Obj([XXBTZUSD |-> JArr(<<JArr(GoodRow)>>), last |-> JNum(3, 2)]),
             Obj([XXBTZUSD |-> JArr(<<JArr(GoodRow), JArr([GoodRow EXCEPT ![5] = JStr(<<"x">>)])>>),
                  last |-> JInt(5)]),
             Obj([XXBTZUSD |-> JArr(<<JArr(GoodRow)>>),
                  XETHZUSD |-> JArr(<<JArr([GoodRow EXCEPT ![2] = JStr(<<"x">>)])>>),
                  last |-> JInt(6)]),
             Obj([XXBTZUSD |-> JArr(<<JArr(SubSeq(GoodRow, 1, 7))>>), last |-> JInt(5)]),
             Obj([XXBTZUSD |-> JArr(<<JArr(GoodRow)>>), last |-> JStr(<<"7">>)]),
             Obj([XXBTZUSD |-> JArr(<<JArr(DistinctRow)>>),
                  XETHZUSD |-> JArr(<<JArr(GoodRow), JArr(DistinctRow)>>),
                  last |-> JInt(5)]),
             Obj([XXBTZUSD |-> JArr(<<JArr([DistinctRow EXCEPT ![1] = JNum(3, 2), ![8] = JNum(5, 2)])>>),
                  last |-> JInt(5)]),
             Obj([XXBTZUSD |-> JArr(<<JArr([GoodRow EXCEPT ![2] = JNum(3, 2)])>>), last |-> JInt(5)]),
             Obj([XXBTZUSD |-> JStr(<<"x">>), last |-> JInt(5)]),
             JInt(5)}
      [] typ = "*kraken.OrderBook" ->
            {JAbsent,
             Obj([XXBTZUSD |->
                    Obj([asks |-> JArr(<<JArr(<<JNum(75, 2), JNum(1, 4), JInt(60)>>)>>),
                         bids |-> JArr(<<JArr(<<JInt(30), JNum(7, 2), JInt(60)>>),
                                         JArr(<<JInt(20), JInt(100), JNum(121, 2)>>)>>)])]),
             Obj([XXBTZUSD |-> Obj([asks |-> JArr(<<>>)])]),
             Obj([XXBTZUSD |-> Obj([asks |-> JArr(<<JArr(<<JInt(30), JInt(1)>>)>>)])]),
             Obj([XXBTZUSD |->
                    Obj([bids |-> JArr(<<JArr(<<JStr(<<"1", ".", "5">>), JInt(1), JInt(60)>>)>>)])]),
             Obj([XXBTZUSD |-> Obj([asks |-> JInt(5)])])}
      [] typ = "*kraken.RecentTrades" ->
            {JAbsent,
             Obj([last |-> JStr(<<"4", "2">>)]),
             Obj([XXBTZUSD |-> JArr(<<JArr(<<JStr(<<"1", ".", "5">>), JStr(<<"0", ".", "2", "5">>), JNum(121, 2), JStr(<<"b">>), JStr(<<"l">>), JStr(<<>>)>>),
                                      JArr(<<JStr(<<"2", "0">>), JStr(<<"0", ".", "2", "5">>), JInt(61), JStr(<<"s">>), JStr(<<"m">>), JStr(<<"x">>)>>)>>),
                  last |-> JStr(<<"4", "2">>)]),
             Obj([XXBTZUSD |-> JArr(<<JArr(<<JStr(<<"1", ".", "5">>), JStr(<<"0", ".", "2", "5">>), JInt(61), JStr(<<"x">>), JStr(<<"x">>), JStr(<<>>)>>)>>)]),
             Obj([XXBTZUSD |-> JArr(<<JArr(<<JStr(<<"1", ".", "5">>), JStr(<<"x">>), JInt(61), JStr(<<"b">>), JStr(<<"l">>), JStr(<<>>)>>)>>),
                  last |-> JStr(<<"4", "2">>)]),
             Obj([XXBTZUSD |-> JArr(<<JArr(<<JStr(<<"1", ".", "5">>), JStr(<<"0", ".", "2", "5">>), JInt(61), JStr(<<"b">>), JStr(<<"l">>), JStr(<<>>)>>)>>),
                  last |-> JStr(<<"x">>)]),
             Obj([XXBTZUSD |-> JArr(<<JArr(<<JStr(<<"1", ".", "5">>), JStr(<<"0", ".", "2", "5">>), JInt(61), JStr(<<"b">>), JStr(<<"l">>), JStr(<<>>)>>)>>),
                  last |-> JInt(42)]),
             Obj([XXBTZUSD |-> JArr(<<JArr(<<JStr(<<"1", ".", "5">>), JStr(<<"0", ".", "2", "5">>), JInt(61), JStr(<<"b">>), JStr(<<"l">>)>>)>>),
                  last |-> JStr(<<"7">>)])}
                \cup {Obj([XXBTZUSD |-> JArr(<<>>), last |-> JStr(c)]) : c \in Cursors}
                \cup {Obj([XXBTZUSD |-> JArr(<<JArr(TradeRow(<<"B">>, <<"L">>)), JArr(TradeRow(<<"s">>, <<>>))>>),
                           XETHZUSD |-> JArr(<<JArr(TradeRow(<<"b", "u", "y">>, <<"m">>)), JArr(TradeRow(<<>>, <<"l", "m">>))>>),
                           last |-> JStr(<<"4", "2">>)])}
      [] typ = "*kraken.RecentSpreads" ->
            {JAbsent,
             Obj([XXBTZUSD |-> JArr(<<JArr(<<JInt(60), JStr(<<"1", ".", "5">>), JStr(<<"2", "0">>)>>)>>), last |-> JInt(5)]),
             Obj([XXBTZUSD |-> JArr(<<JArr(<<JNum(121, 2), JStr(<<"1", ".", "5">>), JStr(<<"2", "0">>)>>)>>)]),
             Obj([XXBTZUSD |-> JArr(<<>>), last |-> JNum(5, 2)]),
             Obj([XXBTZUSD |-> JArr(<<JArr(<<JInt(60), JStr(<<"1", ".", "5">>), JStr(<<"2", "0">>)>>),
                                      JArr(<<JInt(61), JStr(<<"x">>), JStr(<<"2", "0">>)>>)>>),
                  last |-> JInt(6)]),
             Obj([XXBTZUSD |-> JArr(<<JArr(<<JInt(60), JStr(<<"1", ".", "5">>)>>)>>), last |-> JInt(5)]),
             Obj([XXBTZUSD |-> JInt(5), last |-> JInt(5)]),
             Obj([XXBTZUSD |-> JArr(<<>>), last |-> JStr(<<"7">>)])}
      [] OTHER -> {Obj([unixtime |-> JInt(7)])}

\* results of other endpoints than the one the destination is for
OtherEndpointResults ==
    {Obj([unixtime |-> JInt(7), rfc1123 |-> JStr(<<"x">>)]),
     Obj([NANO |-> Obj([aclass |-> JStr(<<"c", "u", "r">>), altname |-> JStr(<<"x">>)])]),
     Obj([XXBTZUSD |-> JArr(<<JArr(GoodRow)>>), last |-> JInt(5)])}

\* the payloads handed to Parse with a destination of that type: broken
\* ones, every wire error array with every result under the wire's keys,
\* and envelopes that spell the error key "errors"
PayloadsOf(typ) ==
    BrokenPayloads
        \cup {Envelope("error", JArr(<<>>), r) : r \in OtherEndpointResults}
        \cup {Envelope("error", e, r) : e \in WireErrorArrays, r \in ResultsOf(typ)}
        \cup {Envelope("errors", JArr(<<JStr(sEAPI \o <<":", "x">>)>>), r) :
                r \in ResultsOf(typ)}

\* the keys of a payload's result, which the decoder's range visits
ResultKeys(p) ==
    LET r == Top(p, "result")
    IN  IF SyntaxOK(p) /\ r.t = "obj" THEN DOMAIN Val(r) ELSE {}

RangeKeys(typ, p) == IF typ \in RangedTypes THEN ResultKeys(p) ELSE {}

\* the orders in which a range can visit the keys of a Go map: all of them
Perms(keys) ==
    {f \in [1..Cardinality(keys) -> keys] :
        \A i, j \in 1..Cardinality(keys) : i # j => f[i] # f[j]}

NotCalled == [status |-> "none", wraps |-> "", detail |-> <<>>]

-----------------------------------------------------------------------------
(* One call of Parse.  The destination is one a caller can hold: freshly   *)
(* allocated (the zero value), or left as an earlier Parse of a payload    *)
(* into the zero value left it.                                            *)

\* the payloads of the earlier Parse
PriorPayloadsOf(typ) ==
    {Envelope(k, JArr(<<JStr(sEAPI \o <<":", "x">>)>>), r) :
        k \in {"error", "errors"}, r \in ResultsOf(typ)}

DestsOf(vv) ==
    {ZeroDest(vv)}
        \cup UNION {{Parse(p, vv, ZeroDest(vv), ord).dest :
                        ord \in Perms(RangeKeys(vv.typ, p))} :
                    p \in PriorPayloadsOf(vv.typ)}

Init ==
    /\ v \in Destinations
    /\ dest \in DestsOf(v)
    /\ pre = dest
    /\ payload = NoPayload
    /\ order = <<>>
    /\ ret = NotCalled
    /\ decoded = FALSE
    /\ errStrings = NilVal
    /\ errsOut = [panic |-> FALSE, errs |-> NilVal]
    /\ cstage = "idle"
    /\ calls = Idle /\ client = Idle /\ instrumented = Idle

\* p.Parse(payload, v)
CallParse ==
    /\ ret.status = "none"
    /\ \E p \in PayloadsOf(v.typ) : \E ord \in Perms(RangeKeys(v.typ, p)) :
        \E out \in {Parse(p, v, dest, ord)} :
            /\ pre' = dest
            /\ dest' = out.dest
            /\ ret' = out.ret
            /\ decoded' = out.decoded
            /\ payload' = p
            /\ order' = ord
    /\ UNCHANGED v
    /\ UNCHANGED errorVars
    /\ UNCHANGED otherVars

Next == CallParse

Spec == Init /\ [][Next]_vars

-----------------------------------------------------------------------------
(* Concurrent calls of Parse.  Parser is a struct without fields, and a    *)
(* call keeps what it decodes in variables of its own (msg and the maps it *)
(* makes) until it stores into its destination: a call is a step that      *)
(* decodes the payload into its locals and a step that stores from them.   *)

\* the goroutines that call Parse
Callers == {"a", "b"}

\* the calls a caller can make: a destination of its own, zero or left by
\* an earlier Parse, and a payload of its own
ConcurrentCalls ==
    {[v |-> [typ |-> "", ptrNil |-> TRUE], payload |-> NoPayload, order |-> <<>>, dest |-> NoDest]}
        \cup UNION {UNION {{[v |-> [typ |-> typ, ptrNil |-> FALSE], payload |-> p, order |-> ord, dest |-> d] :
                                ord \in Perms(RangeKeys(typ, p)),
                                d \in {Zero(typ), Parse(Envelope("error", JArr(<<>>), Obj([last |-> JInt(5)])),
                                                        [typ |-> typ, ptrNil |-> FALSE], Zero(typ), <<"last">>).dest}} :
                            p \in {Envelope("error", JArr(<<JStr(sEAPI \o <<":", "x">>)>>), r) :
                                        r \in {JAbsent,
                                               Obj([unixtime |-> JInt(7)]),
                                               Obj([XXBTZUSD |-> JArr(<<JArr(GoodRow)>>), last |-> JInt(6)])}}} :
                     typ \in {"*kraken.Time", "*kraken.OHLCs"}}

\* the locals of a call had they been kept in the Parser, one place for
\* every call
LocalsInParser(c) == "a"

\* where a call keeps its locals: in the call's own frame
LocalsOf(c) == c

\* no call of Parse, no run of the classifier
NoParse ==
    /\ v = [typ |-> "", ptrNil |-> TRUE]
    /\ dest = NoDest
    /\ pre = NoDest
    /\ payload = NoPayload
    /\ order = <<>>
    /\ ret = NotCalled
    /\ decoded = FALSE
    /\ errStrings = NilVal
    /\ errsOut = [panic |-> FALSE, errs |-> NilVal]
    /\ cstage = "idle"

InitConcurrent ==
    /\ NoParse
    /\ \E of \in [Callers -> ConcurrentCalls] :
          calls = [call |-> [c \in Callers |->
                                [v |-> of[c].v, payload |-> of[c].payload, order |-> of[c].order,
                                 pre |-> of[c].dest, dest |-> of[c].dest,
                                 ret |-> NotCalled, pc |-> "called"]],
                   locals |-> [c \in Callers |-> Idle]]
    /\ client = Idle /\ instrumented = Idle

\* the first part of a call: the payload is decoded and the outcome
\* prepared in the locals of the call
ParseDecode(c) ==
    /\ calls.call[c].pc = "called"
    /\ calls' = [calls EXCEPT
                    !.call[c].pc = "decoded",
                    !.locals[LocalsOf(c)] =
                        Parse(calls.call[c].payload, calls.call[c].v,
                              calls.call[c].dest, calls.call[c].order)]
    /\ UNCHANGED <<parseVars, errorVars, client, instrumented>>

\* the second part: the destination is stored from the locals and the call
\* returns
ParseStore(c) ==
    /\ calls.call[c].pc = "decoded"
    /\ calls' = [calls EXCEPT
                    !.call[c].pc = "returned",
                    !.call[c].dest = calls.locals[LocalsOf(c)].dest,
                    !.call[c].ret = calls.locals[LocalsOf(c)].ret]
    /\ UNCHANGED <<parseVars, errorVars, client, instrumented>>

NextConcurrent == \E c \in Callers : ParseDecode(c) \/ ParseStore(c)

SpecConcurrent == InitConcurrent /\ [][NextConcurrent]_vars

-----------------------------------------------------------------------------
(* The HTTP client: NewHTTPClient with its options, and the eight          *)
(* operations, each of which builds a request, hands it to execute and     *)
(* parses the body of the response.  Texts are sequences of tokens.        *)

\* most operations called on one client
MaxCalls == 2

\* url.Parse(u): a text that begins with a colon has no protocol scheme,
\* and a "%" must begin an escape
URLParse(u) == ~(Len(u) > 0 /\ u[1] = ":") /\ (\A i \in 1..Len(u) : u[i] # "%")

Base64Alphabet == {"c", "2", "V", "j", "A", "Q", "="}

\* base64.StdEncoding.DecodeString(s): groups of four characters of the
\* alphabet, "=" only as padding at the end
Base64Decodes(s) ==
    /\ Len(s) % 4 = 0
    /\ \A i \in 1..Len(s) : s[i] \in Base64Alphabet
    /\ \A i \in 1..Len(s) : s[i] = "=" => (i > Len(s) - 2 /\ \A j \in i..Len(s) : s[j] = "=")

\* c := HTTPClient{httpClient: http.DefaultClient, baseURL: ..., parser: Parser{}}
DefaultHTTPClient ==
    [httpClient |-> "http.DefaultClient",
     dryRun |-> FALSE,
     secret |-> <<>>,
     baseURL |-> <<"https://api.kraken.com/0">>]

\* the options of the model: a transport of the caller's or a nil one, base
\* URLs that parse and that do not, secrets that are base64 and that are
\* not, and the dry run
HTTPClientOptions ==
    {[opt |-> "HTTPClientWithHTTPClient", arg |-> <<h>>] : h \in {"custom", "nil"}}
        \cup {[opt |-> "HTTPClientWithBaseURL", arg |-> u] :
                u \in {<<"http://localhost">>, <<":", "//localhost">>}}
        \cup {[opt |-> "HTTPClientWithSecret", arg |-> x] :
                x \in {<<"c", "2", "V", "j">>, <<"!", "!", "!">>}}
        \cup {[opt |-> "HTTPClientDryRun", arg |-> <<>>]}

\* an option that checked the value it is given
CheckedOption(o, c) ==
    CASE o.opt = "HTTPClientWithHTTPClient" ->
            [err |-> "", c |-> [c EXCEPT !.httpClient = o.arg[1]]]
      [] o.opt = "HTTPClientWithBaseURL" ->
            IF ~URLParse(o.arg) THEN [err |-> "url.Parse", c |-> c]
            ELSE [err |-> "", c |-> [c EXCEPT !.baseURL = o.arg]]
      [] o.opt = "HTTPClientWithSecret" ->
            IF ~Base64Decodes(o.arg) THEN [err |-> "invalid secret", c |-> c]
            ELSE [err |-> "", c |-> [c EXCEPT !.secret = o.arg]]
      [] o.opt = "HTTPClientDryRun" -> [err |-> "", c |-> [c EXCEPT !.dryRun = TRUE]]

\* opt(&c): the options check the value the client holds, c.baseURL or
\* c.secret, and then store the one they are given
ApplyOption(o, c) ==
    CASE o.opt = "HTTPClientWithHTTPClient" ->
            [err |-> "", c |-> [c EXCEPT !.httpClient = o.arg[1]]]
      [] o.opt = "HTTPClientWithBaseURL" ->
            IF ~URLParse(c.baseURL) THEN [err |-> "url.Parse", c |-> c]
            ELSE [err |-> "", c |-> [c EXCEPT !.baseURL = o.arg]]
      [] o.opt = "HTTPClientWithSecret" ->
            IF ~Base64Decodes(c.secret) THEN [err |-> "invalid secret", c |-> c]
            ELSE [err |-> "", c |-> [c EXCEPT !.secret = o.arg]]
      [] o.opt = "HTTPClientDryRun" -> [err |-> "", c |-> [c EXCEPT !.dryRun = TRUE]]

RECURSIVE ApplyOptions(_, _)
\* for _, opt := range opts: the first error ends the loop
ApplyOptions(opts, c) ==
    IF opts = <<>> THEN [err |-> "", c |-> c]
    ELSE IF ApplyOption(Head(opts), c).err # "" THEN ApplyOption(Head(opts), c)
    ELSE ApplyOptions(Tail(opts), ApplyOption(Head(opts), c).c)

\* no client: NewHTTPClient returns nil with the error
NoClient == [httpClient |-> "none", dryRun |-> FALSE, secret |-> <<>>, baseURL |-> <<>>]

\* NewHTTPClient(opts...)
NewHTTPClient(opts) ==
    IF ApplyOptions(opts, DefaultHTTPClient).err # ""
    THEN [built |-> FALSE, err |-> ApplyOptions(opts, DefaultHTTPClient).err, c |-> NoClient]
    ELSE [built |-> TRUE, err |-> "", c |-> ApplyOptions(opts, DefaultHTTPClient).c]

\* the eight operations, with the path each requests and the type it parses
Operations ==
    {"Time", "Status", "Assets", "AssetPairs", "OHLC", "OrderBook", "RecentTrades",
     "RecentSpreads"}

PathOf(op) ==
    CASE op = "Time" -> "/public/time"
      [] op = "Status" -> "/public/SystemStatus"
      [] op = "Assets" -> "/public/Assets"
      [] op = "AssetPairs" -> "/public/AssetPairs"
      [] op = "OHLC" -> "/public/OHLC"
      [] op = "OrderBook" -> "/public/OrderBook"
      [] op = "RecentTrades" -> "/public/Trades"
      [] op = "RecentSpreads" -> "/public/Spread"

TypeOf(op) ==
    CASE op = "Time" -> "*kraken.Time"
      [] op = "Status" -> "*kraken.SystemStatus"
      [] op = "Assets" -> "*kraken.Assets"
      [] op = "AssetPairs" -> "*kraken.AssetPairs"
      [] op = "OHLC" -> "*kraken.OHLCs"
      [] op = "OrderBook" -> "*kraken.OrderBook"
      [] op = "RecentTrades" -> "*kraken.RecentTrades"
      [] op = "RecentSpreads" -> "*kraken.RecentSpreads"

\* the operations that begin with if len(pairs) == 0
PairsRequired == {"OHLC", "OrderBook", "RecentTrades", "RecentSpreads"}

\* the operations that take pairs, and those that take since
TakesPairs == PairsRequired \cup {"AssetPairs"}
TakesSince == {"OHLC", "RecentTrades", "RecentSpreads"}

\* no since: a nil *uint64
NoSince == <<>>

\* the arguments of the model: up to two pairs, and a since that is nil or
\* points to a number
ArgumentsOf(op) ==
    {[pairs |-> ps, since |-> si] :
        ps \in IF op \in TakesPairs
               THEN {<<>>, <<"XBTUSD">>, <<"XBTUSD", "ETHUSD">>}
               ELSE {<<>>},
        si \in IF op \in TakesSince THEN {NoSince, <<5>>} ELSE {NoSince}}

RECURSIVE Join(_, _)
\* strings.Join(elems, sep)
Join(elems, sep) ==
    IF Len(elems) = 0 THEN <<>>
    ELSE IF Len(elems) = 1 THEN <<elems[1]>>
    ELSE <<elems[1], sep>> \o Join(Tail(elems), sep)

\* strconv.FormatUint(n, 10) and strconv.Itoa(n), of a number below ten
FormatUint(n) ==
    <<CHOOSE d \in DOMAIN DigitVal : DigitVal[d] = n>>

\* url.QueryEscape: a comma is written "%2C"
QueryEscape(text) == [i \in 1..Len(text) |-> IF text[i] = "," THEN "%2C" ELSE text[i]]

\* url.QueryUnescape
QueryUnescape(text) == [i \in 1..Len(text) |-> IF text[i] = "%2C" THEN "," ELSE text[i]]

\* the query an operation builds in its local url.Values
QueryOf(op, args) ==
    (IF op = "AssetPairs" THEN [info |-> <<"info">>] ELSE <<>>)
        @@ (IF op \in TakesPairs /\ (op # "AssetPairs" \/ Len(args.pairs) # 0)
            THEN [pairs |-> Join(args.pairs, ",")] ELSE <<>>)
        @@ (IF op = "OHLC" THEN [interval |-> FormatUint(1)] ELSE <<>>)
        @@ (IF op = "OrderBook" THEN [count |-> FormatUint(9)] ELSE <<>>)
        @@ (IF op \in TakesSince /\ args.since # NoSince
            THEN [since |-> FormatUint(args.since[1])] ELSE <<>>)

\* query.Encode(): the keys with their escaped values
Encode(query) == [k \in DOMAIN query |-> QueryEscape(query[k])]

\* the operations that end their query with req.URL.RawQuery = query.Encode()
SetsRawQuery == {"AssetPairs", "OHLC", "OrderBook"}

\* an operation that never forgot req.URL.RawQuery = query.Encode()
RawQueryEncoded(op, args) == Encode(QueryOf(op, args))

\* req.URL.RawQuery when the request is handed to execute: the encoded
\* query where the operation assigns it, and the empty one of the base URL
\* where it does not
RawQueryOf(op, args) ==
    IF op \in SetsRawQuery THEN Encode(QueryOf(op, args)) ELSE <<>>

\* no request
NoRequest == [url |-> <<>>, RawQuery |-> <<>>, made |-> FALSE]

\* what the transport answers: an error, or a response with a body
RepliesOf(op) ==
    {[err |-> TRUE, body |-> NoPayload],
     [err |-> FALSE, body |-> [syntax |-> "invalid", doc |-> JNull]],
     [err |-> FALSE, body |-> Envelope("error", JArr(<<JStr(sEAPI \o <<":", "x">>)>>), JAbsent)],
     [err |-> FALSE,
      body |-> Envelope("error", JArr(<<>>),
                CASE op = "Time" -> Obj([unixtime |-> JInt(7)])
                  [] op = "Status" -> Obj([status |-> JStr(<<"o", "n">>), timestamp |-> JStr(<<"1", "9", "7", "0", "-", "0", "1", "-", "0", "1", "T", "0", "0", ":", "0", "0", ":", "0", "7", "Z">>)])
                  [] op = "Assets" -> Obj([NANO |-> Obj([altname |-> JStr(<<"x">>)])])
                  [] op = "AssetPairs" -> JObj(<<>>)
                  [] op = "OHLC" -> Obj([XXBTZUSD |-> JArr(<<JArr(GoodRow)>>), last |-> JInt(5)])
                  [] op = "OrderBook" -> Obj([XXBTZUSD |-> Obj([asks |-> JArr(<<JArr(<<JNum(75, 2), JNum(1, 4), JInt(60)>>)>>)])])
                  [] op = "RecentTrades" -> Obj([XXBTZUSD |-> JArr(<<JArr(TradeRow(<<"b">>, <<"l">>))>>), last |-> JStr(<<"4", "2">>)])
                  [] op = "RecentSpreads" -> Obj([XXBTZUSD |-> JArr(<<>>), last |-> JInt(5)]))]}

\* how an operation ends: the value and the error it returns, the request
\* it handed to the transport if it did, and a panic if there was one
Ended(value, err, req, sent) == [value |-> value, err |-> err, req |-> req, sent |-> sent]

\* the part of an operation after execute has returned a response:
\* ioutil.ReadAll, msg := T{}, c.parser.Parse(payload, &msg)
ParseBody(op, body, ord, req) ==
    IF Parse(body, [typ |-> TypeOf(op), ptrNil |-> FALSE], Zero(TypeOf(op)), ord).ret.status = "ok"
    THEN Ended(Parse(body, [typ |-> TypeOf(op), ptrNil |-> FALSE], Zero(TypeOf(op)), ord).dest,
               "", req, TRUE)
    ELSE IF Parse(body, [typ |-> TypeOf(op), ptrNil |-> FALSE], Zero(TypeOf(op)), ord).ret.status = "panic"
    THEN Ended(Zero(TypeOf(op)), "panic", req, TRUE)
    ELSE Ended(Zero(TypeOf(op)), "ErrParse", req, TRUE)

\* HTTPClient.execute(req), and the rest of the operation
Execute(c, op, req, reply, ord) ==
    IF c.dryRun THEN Ended(Zero(TypeOf(op)), "ErrDryRun", req, FALSE)
    ELSE IF c.httpClient = "nil" THEN Ended(Zero(TypeOf(op)), "panic", req, FALSE)
    ELSE IF reply.err THEN Ended(Zero(TypeOf(op)), "ErrNetwork", req, TRUE)
    ELSE ParseBody(op, reply.body, ord, req)

\* one of the eight operations on the client c
Operation(c, op, args, reply, ord) ==
    IF op \in PairsRequired /\ Len(args.pairs) = 0
    THEN Ended(Zero(TypeOf(op)), "pairs are required", NoRequest, FALSE)
    ELSE IF ~URLParse(c.baseURL \o <<PathOf(op)>>)
    THEN Ended(Zero(TypeOf(op)), "url.Parse", NoRequest, FALSE)
    ELSE Execute(c, op,
                 [url |-> c.baseURL \o <<PathOf(op)>>, RawQuery |-> RawQueryOf(op, args),
                  made |-> TRUE],
                 reply, ord)

\* no operation
NoOperation == [op |-> "", args |-> [pairs |-> <<>>, since |-> NoSince],
                out |-> Ended(<<>>, "", NoRequest, FALSE)]

InitClient ==
    /\ NoParse
    /\ calls = Idle /\ instrumented = Idle
    /\ client = [stage |-> "new", opts |-> <<>>, built |-> FALSE, err |-> "", c |-> NoClient,
                 called |-> 0, sent |-> 0, last |-> NoOperation]

\* c, err := NewHTTPClient(opts...), with up to two options
CallNewHTTPClient ==
    /\ client.stage = "new"
    /\ \E opts \in SeqsUpTo(HTTPClientOptions, 2) :
        \E new \in {NewHTTPClient(opts)} :
            client' = [client EXCEPT !.stage = "made", !.opts = opts, !.built = new.built,
                                     !.err = new.err, !.c = new.c]
    /\ UNCHANGED <<parseVars, errorVars, calls, instrumented>>

\* c.Time(ctx), c.Status(ctx), ... c.RecentSpreads(ctx, since, pairs...)
CallOperation ==
    /\ client.stage = "made"
    /\ client.built
    /\ client.called < MaxCalls
    /\ \E op \in Operations : \E args \in ArgumentsOf(op) : \E reply \in RepliesOf(op) :
        \E ord \in Perms(RangeKeys(TypeOf(op), reply.body)) :
        \E out \in {Operation(client.c, op, args, reply, ord)} :
            client' = [client EXCEPT !.called = @ + 1,
                                     !.sent = IF out.sent THEN @ + 1 ELSE @,
                                     !.last = [op |-> op, args |-> args, out |-> out]]
    /\ UNCHANGED <<parseVars, errorVars, calls, instrumented>>

NextClient == CallNewHTTPClient \/ CallOperation

SpecClient == InitClient /\ [][NextClient]_vars

-----------------------------------------------------------------------------
(* The instrumentation client: an operation of InstrumentationClient over an
   inner Client, with recovered panics so that a caller may call again *)

\* the value of a metric vector that was never constructed
NilVec == [nil |-> TRUE]

\* a constructed metric vector with every label at zero
ZeroVec == [nil |-> FALSE, at |-> [op \in Operations |-> 0]]

\* the package variables had they been constructed and registered
ConstructedMetrics ==
    [operationCount |-> ZeroVec, operationDuration |-> ZeroVec, errorCount |-> ZeroVec]

\* var ( operationCount *prometheus.CounterVec; operationDuration
\* *prometheus.HistogramVec; errorCount *prometheus.CounterVec ): declared
\* and never assigned
PackageMetrics ==
    [operationCount |-> NilVec, operationDuration |-> NilVec, errorCount |-> NilVec]

\* vec.WithLabelValues(op).Inc(), and timer.ObserveDuration(), on a
\* constructed vector
Inc(vec, op) == [vec EXCEPT !.at[op] = @ + 1]

\* what an inner Client may hand back: a value, an error with the zero
\* value, or both a value and an error
InnerResults(op) ==
    {[value |-> [of |-> op, zero |-> z], err |-> e] :
        z \in BOOLEAN, e \in {"", "ErrNetwork", "ErrParse"}}

\* one thing an instrumented operation did
Event(e, op, args) == [e |-> e, op |-> op, args |-> args]

NoArgs == [pairs |-> <<>>, since |-> NoSince]

\* how an instrumented operation ended
Returned(metrics, events, inner, panic) ==
    [metrics |-> metrics, events |-> events, panic |-> panic,
     value |-> IF panic THEN [of |-> "", zero |-> TRUE] ELSE inner.value,
     err |-> IF panic THEN "panic" ELSE inner.err]

\* InstrumentationClient.Time ... InstrumentationClient.RecentSpreads:
\*   timer := prometheus.NewTimer(operationDuration.WithLabelValues(op))
\*   defer timer.ObserveDuration()
\*   operationCount.WithLabelValues(op).Inc()
\*   v, err := c.inner.Op(ctx, args...)
\*   if err != nil { errorCount.WithLabelValues(op).Inc() }
\*   return v, err
\* WithLabelValues on a nil vector is a nil pointer dereference
Instrumented(metrics, op, args, inner) ==
    IF metrics.operationDuration.nil
    THEN Returned(metrics, <<>>, inner, TRUE)
    ELSE IF metrics.operationCount.nil
    THEN Returned([metrics EXCEPT !.operationDuration = Inc(@, op)], <<>>, inner, TRUE)
    ELSE IF inner.err # "" /\ metrics.errorCount.nil
    THEN Returned([metrics EXCEPT !.operationDuration = Inc(@, op),
                                  !.operationCount = Inc(@, op)],
                  <<Event("operationCount.Inc", op, NoArgs), Event("inner", op, args)>>,
                  inner, TRUE)
    ELSE Returned([metrics EXCEPT !.operationDuration = Inc(@, op),
                                  !.operationCount = Inc(@, op),
                                  !.errorCount = IF inner.err # "" THEN Inc(@, op) ELSE @],
                  <<Event("operationCount.Inc", op, NoArgs), Event("inner", op, args)>>
                      \o (IF inner.err # ""
                          THEN <<Event("errorCount.Inc", op, NoArgs)>> ELSE <<>>),
                  inner, FALSE)

NoInstrumented ==
    [op |-> "", args |-> NoArgs, inner |-> [value |-> [of |-> "", zero |-> TRUE], err |-> ""],
     before |-> PackageMetrics, out |-> Returned(PackageMetrics, <<>>,
                                                 [value |-> [of |-> "", zero |-> TRUE], err |-> ""],
                                                 FALSE)]

\* NewInstrumentationClient(inner), in a program that starts with the
\* package variables as declared
InitInstrumented ==
    /\ NoParse
    /\ calls = Idle /\ client = Idle
    /\ instrumented = [metrics |-> PackageMetrics, called |-> 0, last |-> NoInstrumented]

\* one call of an instrumented operation
CallInstrumented ==
    /\ instrumented.called < MaxCalls
    /\ \E op \in Operations : \E args \in ArgumentsOf(op) : \E inner \in InnerResults(op) :
        \E out \in {Instrumented(instrumented.metrics, op, args, inner)} :
            instrumented' = [metrics |-> out.metrics,
                             called |-> instrumented.called + 1,
                             last |-> [op |-> op, args |-> args, inner |-> inner,
                                       before |-> instrumented.metrics, out |-> out]]
    /\ UNCHANGED <<parseVars, errorVars, calls, client>>

NextInstrumented == CallInstrumented

SpecInstrumented == InitInstrumented /\ [][NextInstrumented]_vars

-----------------------------------------------------------------------------
(* Properties of the classifier, checked under SpecErrors *)

\* the sentinel the specification pairs with each category token
TokenSentinel ==
    {<<sEGeneral, "ErrGeneral">>, <<sEAPI, "ErrAPI">>, <<sEQuery, "ErrQuery">>,
     <<sEOrder, "ErrOrder">>, <<sETrade, "ErrTrade">>, <<sEFunding, "ErrFunding">>,
     <<sEService, "ErrService">>, <<sESession, "ErrSession">>}

\* s is token tok, a colon, and anything
StartsWithToken(s, tok) ==
    /\ Len(s) > Len(tok)
    /\ SubSeq(s, 1, Len(tok)) = tok
    /\ s[Len(tok) + 1] = ":"

HasColon(s) == \E i \in 1..Len(s) : s[i] = ":"

\* the first k characters of s are its text before the first colon
\* (all of s when it has no colon)
IsPrefixLen(s, k) ==
    /\ k \in 0..Len(s)
    /\ \A j \in 1..k : s[j] # ":"
    /\ k = Len(s) \/ s[k + 1] = ":"

Classified == cstage = "done" /\ ~errsOut.panic /\ ~errStrings.isNil

\* C6: a string that is a category token, a colon and a message classifies
\* to the token's sentinel with everything after that first colon as its
\* message; an input of such strings alone is always classified.
C6_TokenPrefixClassified ==
    cstage = "done" =>
        /\ (\A i \in 1..GoLen(errStrings) :
                \E p \in TokenSentinel : StartsWithToken(errStrings.val[i], p[1]))
            => ~errsOut.panic
        /\ Classified =>
            \A i \in 1..GoLen(errStrings) : \A p \in TokenSentinel :
                StartsWithToken(errStrings.val[i], p[1]) =>
                    /\ GoLen(errsOut.errs) >= i
                    /\ errsOut.errs.val[i].wraps = p[2]
                    /\ errsOut.errs.val[i].arg =
                        SubSeq(errStrings.val[i], Len(p[1]) + 2, Len(errStrings.val[i]))

\* C6 witness: "EAPI:a:b" was classified to ErrAPI with message "a:b"
C6_Witness ==
    /\ Classified
    /\ \E i \in 1..GoLen(errStrings) :
        /\ errStrings.val[i] = sEAPI \o <<":", "a", ":", "b">>
        /\ errsOut.errs.val[i] = [wraps |-> "ErrAPI", arg |-> <<"a", ":", "b">>]

\* C7: a string with no colon classifies to ErrAPIUnknown with the whole
\* string kept, and the classifier does not crash on it.
C7_NoColonIsUnknown ==
    cstage = "done" =>
        \A i \in 1..GoLen(errStrings) :
            ~HasColon(errStrings.val[i]) =>
                /\ ~errsOut.panic
                /\ GoLen(errsOut.errs) >= i
                /\ errsOut.errs.val[i] =
                    [wraps |-> "ErrAPIUnknown", arg |-> errStrings.val[i]]

\* C8: a string whose text before the first colon is no category token
\* (compared with case) classifies to ErrAPIUnknown with the whole string,
\* prefix and colon included; an input of such strings alone is always
\* classified.
C8_OtherPrefixIsUnknown ==
    cstage = "done" =>
        /\ (\A i \in 1..GoLen(errStrings) : \A k \in 0..Len(errStrings.val[i]) :
                IsPrefixLen(errStrings.val[i], k)
                    => SubSeq(errStrings.val[i], 1, k) \notin Tokens)
            => ~errsOut.panic
        /\ Classified =>
            \A i \in 1..GoLen(errStrings) : \A k \in 0..Len(errStrings.val[i]) :
                (/\ IsPrefixLen(errStrings.val[i], k)
                 /\ SubSeq(errStrings.val[i], 1, k) \notin Tokens) =>
                    /\ GoLen(errsOut.errs) >= i
                    /\ errsOut.errs.val[i] =
                        [wraps |-> "ErrAPIUnknown", arg |-> errStrings.val[i]]

\* C8 witness: "eGeneral:x" was classified to ErrAPIUnknown, whole string kept
C8_Witness ==
    /\ Classified
    /\ \E i \in 1..GoLen(errStrings) :
        /\ errStrings.val[i] = <<"e", "G", "e", "n", "e", "r", "a", "l", ":", "x">>
        /\ errsOut.errs.val[i] =
            [wraps |-> "ErrAPIUnknown", arg |-> errStrings.val[i]]

\* C9: for a non-empty input the output has the input's length and its i-th
\* element is the classification of the i-th input string.
C9_SameLengthSameOrder ==
    (cstage = "done" /\ GoLen(errStrings) > 0) =>
        /\ ~errsOut.panic
        /\ GoLen(errsOut.errs) = GoLen(errStrings)
        /\ \A i \in 1..GoLen(errStrings) :
            errsOut.errs.val[i] = ClassifyOne(errStrings.val[i]).err

\* the calls of parseErrors that return keep the length and the order of
\* their input
ReturnedSameLengthSameOrder ==
    (Classified /\ GoLen(errStrings) > 0) =>
        /\ GoLen(errsOut.errs) = GoLen(errStrings)
        /\ \A i \in 1..GoLen(errStrings) :
            errsOut.errs.val[i] = parseErrors(Some(<<errStrings.val[i]>>)).errs.val[1]

-----------------------------------------------------------------------------
(* Properties of Parse, checked under Spec *)

Called == ret.status # "none"

\* the wire error array of the payload: the value under its key "error"
WireErrors(p) ==
    IF p.syntax = "json" /\ p.doc.t = "obj" THEN Get(p.doc, "error") ELSE JAbsent

\* the strings of a wire error array
WireStrings(e) == Some([i \in 1..Len(Val(e)) |-> Val(Val(e)[i])])

\* C1: for each of the nine result types and every well-formed payload
\* whose wire error array holds n >= 1 strings, a successful Parse leaves
\* Errors holding exactly the n classified errors, one per wire string.
C1_ErrorsAttached ==
    (/\ v.typ \in KnownTypes
     /\ ret.status = "ok"
     /\ WireErrors(payload) \in WellFormedErrorArrays
     /\ Len(Val(WireErrors(payload))) >= 1)
        => /\ GoLen(dest.Errors) = Len(Val(WireErrors(payload)))
           /\ dest.Errors = parseErrors(WireStrings(WireErrors(payload))).errs

\* C2: whenever Parse returns an error the destination is exactly what it
\* was before the call, LastID included.
C2_ErrorLeavesDestination == ret.status = "error" => dest = pre

\* C3: Parse with a nil (untyped) destination returns an error wrapping
\* ErrParse for every payload, a nil payload included, and never decodes
\* the payload.
C3_NilDestination ==
    (Called /\ v.typ = "")
        => ret.status = "error" /\ ret.wraps = "ErrParse" /\ ~decoded /\ dest = pre

C3_Witness ==
    /\ v.typ = ""
    /\ payload.syntax = "empty"
    /\ ret.status = "error"

\* C4: Parse with a nil pointer of one of the nine result types fails with
\* ErrParse for every payload: no crash, no dereference of the pointer.
C4_TypedNilRefused ==
    (Called /\ v.typ \in KnownTypes /\ v.ptrNil)
        => ret.status = "error" /\ ret.wraps = "ErrParse"

\* C5: Parse with a non-nil destination of a type other than a pointer to
\* one of the nine result types returns an error wrapping ErrParse that
\* names the type, for every payload, without decoding the payload.
C5_UnsupportedType ==
    (Called /\ v.typ # "" /\ v.typ \notin KnownTypes)
        => /\ ret.status = "error" /\ ret.wraps = "ErrParse"
           /\ ret.detail = <<"unsupported type", v.typ>>
           /\ ~decoded
           /\ dest = pre

C5_Witness ==
    /\ v = [typ |-> "*kraken_test.invalidDataType", ptrNil |-> FALSE]
    /\ payload.syntax = "json"
    /\ ret.status = "error"

\* C10: for each of the nine result types, a successful Parse of a payload
\* whose wire error array is empty leaves Errors nil, not empty.
C10_NoErrorsIsNil ==
    (/\ v.typ \in KnownTypes
     /\ ret.status = "ok"
     /\ WireErrors(payload) = JArr(<<>>))
        => dest.Errors = NilVal

C10_Witness ==
    /\ v.typ = "*kraken.Time"
    /\ ret.status = "ok"
    /\ WireErrors(payload) = JArr(<<>>)
    /\ pre.Errors # NilVal
    /\ dest.Timestamp # ZeroTime

\* the result of the payload: the value under its key "result"
WireResult(p) ==
    IF p.syntax = "json" /\ p.doc.t = "obj" THEN Get(p.doc, "result") ELSE JAbsent

\* C11: for every result type, an envelope with a well-formed, non-empty
\* error array and an absent or empty result makes Parse succeed with the
\* classified errors attached.
C11_InBandErrorsSucceed ==
    (/\ Called
     /\ v.typ \in KnownTypes /\ ~v.ptrNil
     /\ WireErrors(payload) \in WellFormedErrorArrays
     /\ Len(Val(WireErrors(payload))) >= 1
     /\ WireResult(payload) \in {JAbsent, JObj(<<>>)})
        => /\ ret.status = "ok"
           /\ GoLen(dest.Errors) = Len(Val(WireErrors(payload)))

\* an array of fewer than n elements
ShortRow(j, n) == j.t = "arr" /\ Len(Val(j)) < n

\* an array of rows one of which has fewer than n elements
HasShortRow(j, n) == j.t = "arr" /\ \E i \in 1..Len(Val(j)) : ShortRow(Val(j)[i], n)

\* the result r holds, for the decoder of typ, a positional array shorter
\* than the decoder reads
HasShortArray(typ, r) ==
    /\ r.t = "obj"
    /\ \E k \in DOMAIN Val(r) \ {"last"} :
        LET x == Val(r)[k]
        IN  CASE typ = "*kraken.Tickers" ->
                    /\ x.t = "obj"
                    /\ \/ \E f \in {"a", "b"} : ShortRow(Sub(x, f), 3)
                       \/ \E f \in {"c", "v", "p", "t", "l", "h"} : ShortRow(Sub(x, f), 2)
              [] typ = "*kraken.AssetPairs" ->
                    /\ x.t = "obj"
                    /\ \E f \in {"fees", "fees_maker"} : HasShortRow(Sub(x, f), 2)
              [] typ = "*kraken.OHLCs" -> HasShortRow(x, 8)
              [] typ = "*kraken.OrderBook" ->
                    /\ x.t = "obj"
                    /\ \E f \in {"asks", "bids"} : HasShortRow(Sub(x, f), 3)
              [] typ = "*kraken.RecentTrades" -> HasShortRow(x, 6)
              [] typ = "*kraken.RecentSpreads" -> HasShortRow(x, 3)
              [] OTHER -> FALSE

\* C12: a positional array shorter than its decoder reads makes Parse
\* return ErrParse; Parse does not crash on it.
C12_ShortArrayIsErrParse ==
    (/\ Called
     /\ v.typ \in KnownTypes /\ ~v.ptrNil
     /\ HasShortArray(v.typ, WireResult(payload)))
        => ret.status = "error" /\ ret.wraps = "ErrParse"

\* the payload is no JSON, or its error is no array of strings, or its
\* result is no object
EnvelopeMismatch(p) ==
    \/ p.syntax \in {"empty", "invalid"}
    \/ /\ p.syntax = "json"
       /\ \/ p.doc.t \notin {"obj", "null"}
          \/ ~DecodeStrings(WireErrors(p)).ok
          \/ ~StructOK(WireResult(p))

\* C13: for each of the nine decoders a payload that is no JSON, or whose
\* JSON does not match the types of the envelope, makes Parse return
\* ErrParse with the decode error.
C13_BadEnvelopeIsErrParse ==
    (Called /\ v.typ \in KnownTypes /\ ~v.ptrNil /\ EnvelopeMismatch(payload))
        => ret = ErrParse(<<"json">>)

\* a string that decimal.NewFromString refuses
NonNumeric(j) == j.t = "str" /\ ~NewFromString(Val(j)).ok

\* the array j holds such a string at one of the positions idx (from 1)
NonNumericAt(j, idx) ==
    j.t = "arr" /\ \E i \in idx : i <= Len(Val(j)) /\ NonNumeric(Val(j)[i])

\* one of the rows of j holds such a string at one of the positions idx
RowNonNumericAt(j, idx) ==
    j.t = "arr" /\ \E n \in 1..Len(Val(j)) : NonNumericAt(Val(j)[n], idx)

\* the result r holds a non-numeric string at a position where the decoder
\* of typ reads a decimal
HasBadDecimal(typ, r) ==
    /\ r.t = "obj"
    /\ \E k \in DOMAIN Val(r) \ {"last"} :
        LET x == Val(r)[k]
        IN  CASE typ = "*kraken.Tickers" ->
                    /\ x.t = "obj"
                    /\ \/ \E f \in {"a", "b"} : NonNumericAt(Sub(x, f), {1, 3})
                       \/ \E f \in {"c", "v", "p", "l", "h"} : NonNumericAt(Sub(x, f), {1, 2})
                       \/ NonNumeric(Sub(x, "o"))
              [] typ = "*kraken.OHLCs" -> RowNonNumericAt(x, 2..7)
              [] typ = "*kraken.RecentTrades" -> RowNonNumericAt(x, {1, 2})
              [] typ = "*kraken.RecentSpreads" -> RowNonNumericAt(x, {2, 3})
              [] OTHER -> FALSE

BadDecimalParsed ==
    /\ Called
    /\ v.typ \in KnownTypes /\ ~v.ptrNil
    /\ HasBadDecimal(v.typ, WireResult(payload))
    /\ ~HasShortArray(v.typ, WireResult(payload))

\* C14: a non-numeric string at a decimal position makes Parse return
\* ErrParse, and nothing of that payload reaches the destination.
C14_BadDecimalIsErrParse ==
    BadDecimalParsed => ret.status = "error" /\ ret.wraps = "ErrParse" /\ dest = pre

\* the first half of C14 alone: the call fails with ErrParse
BadDecimalFails == BadDecimalParsed => ret.status = "error" /\ ret.wraps = "ErrParse"

\* the payload's "last" cursor, a number
FloatLast(p) == Get(WireResult(p), "last")

FloatCursorParsed ==
    /\ v.typ \in {"*kraken.OHLCs", "*kraken.RecentSpreads"}
    /\ ret.status = "ok"
    /\ WireResult(payload).t = "obj"
    /\ FloatLast(payload).t = "num"

\* C15: the float-shaped "last" cursor of OHLC and RecentSpreads is cut to
\* its integer part: LastID = floor(x) for a wire value x >= 0.
C15_FloatCursorTruncated ==
    FloatCursorParsed =>
        dest.LastID = Val(FloatLast(payload))[1] \div Val(FloatLast(payload))[2]

\* what C15 says of the integral cursors alone: they are read exactly
IntegralCursorExact ==
    (FloatCursorParsed /\ Val(FloatLast(payload))[2] = 1)
        => dest.LastID = Val(FloatLast(payload))[1]

(***************************************************************************)
(* The "last" cursor of RecentTrades                                       *)
(***************************************************************************)

\* the "last" member of the result of a payload, or absent
WireLast(p) ==
    IF WireResult(p).t = "obj" /\ "last" \in DOMAIN Val(WireResult(p))
    THEN Val(WireResult(p))["last"]
    ELSE JAbsent

\* the integer a digit string of at most 21 digits denotes, as three
\* digits in base 10^7, most significant first
Limbs(s) ==
    [k \in 1..3 |->
        DigitsValue([i \in 1..7 |->
            IF 7 * (k - 1) + i > 21 - Len(s)
            THEN s[7 * (k - 1) + i - (21 - Len(s))]
            ELSE "0"])]

\* 2^64 - 1 = 184467 * 10^14 + 4407370 * 10^7 + 9551615
LimbsLeqMaxUint64(l) ==
    \/ l[1] < 184467
    \/ l[1] = 184467 /\ l[2] < 4407370
    \/ l[1] = 184467 /\ l[2] = 4407370 /\ l[3] <= 9551615

\* s is a decimal integer between 0 and 2^64 - 1
DenotesUint64(s) ==
    /\ Len(s) \in 1..21
    /\ \A i \in 1..Len(s) : s[i] \in {"0", "1", "2", "3", "4", "5", "6", "7", "8", "9"}
    /\ LimbsLeqMaxUint64(Limbs(s))

\* every row of every pair of a RecentTrades result is well formed
TradeRowsOK(r) ==
    /\ r.t = "obj"
    /\ \A k \in DOMAIN Val(r) \ {"last"} :
          /\ Val(r)[k].t = "arr"
          /\ \A i \in 1..Len(Val(Val(r)[k])) :
                /\ Val(Val(r)[k])[i].t = "arr"
                /\ Len(Val(Val(Val(r)[k])[i])) >= 6
                /\ \E row \in {Val(Val(Val(r)[k])[i])} :
                      /\ row[1].t = "str" /\ NewFromString(Val(row[1])).ok
                      /\ row[2].t = "str" /\ NewFromString(Val(row[2])).ok
                      /\ row[3].t = "num"
                      /\ row[4].t = "str" /\ row[5].t = "str" /\ row[6].t = "str"

\* a call on *RecentTrades whose payload has a string cursor and is sound
\* everywhere else
StringCursorCall ==
    /\ Called
    /\ v.typ = "*kraken.RecentTrades"
    /\ ~v.ptrNil
    /\ WireLast(payload).t = "str"
    /\ TradeRowsOK(WireResult(payload))
    /\ WireErrors(payload) \in WellFormedErrorArrays \cup {JAbsent}

\* C16: the string "last" of RecentTrades parses to exactly the integer it
\* denotes, for every value from 0 to 2^64 - 1; a string that is no decimal
\* integer, or one above 2^64 - 1, is ErrParse.
C16_StringCursorExact ==
    StringCursorCall =>
        IF DenotesUint64(Val(WireLast(payload)))
        THEN /\ ret.status = "ok"
             /\ Limbs(dest.LastID) = Limbs(Val(WireLast(payload)))
             /\ dest.LastID = TrimZeros(dest.LastID)
        ELSE ret.status = "error" /\ ret.wraps = "ErrParse"

\* a cursor between 2^32 and 2^64 - 1 has been parsed
C16_Witness ==
    /\ StringCursorCall
    /\ DenotesUint64(Val(WireLast(payload)))
    /\ Limbs(Val(WireLast(payload)))[1] > 0
    /\ ret.status = "ok"

\* a cursor of 2^64, or one that is no number, has been refused
CursorRefused ==
    StringCursorCall /\ ~DenotesUint64(Val(WireLast(payload)))

(***************************************************************************)
(* The positions read by the Ticker decoder                                *)
(***************************************************************************)

\* a call on *Tickers that has succeeded
TickersParsed ==
    /\ Called
    /\ v.typ = "*kraken.Tickers"
    /\ ret.status = "ok"
    /\ WireResult(payload).t = "obj"

\* the decimal of the string at index i, from 0, of the wire array j
WireDecimal(j, i) == NewFromString(Val(Val(j)[i + 1])).val

\* the tickers on the wire have been stored under their pairs
TickersStored ==
    /\ ~dest.Result.isNil
    /\ DOMAIN dest.Result.val = DOMAIN Val(WireResult(payload))

\* C17 as stated: Ask and Bid take their price from index 0 and their
\* Timestamp, not their Volume, from index 2; LastClose takes its price from
\* index 0 and its volume from index 1.
C17_Index2IsTimestamp ==
    TickersParsed =>
        /\ TickersStored
        /\ \A pair \in DOMAIN Val(WireResult(payload)) :
              \E wire \in {Val(Val(WireResult(payload))[pair])} :
              \E ticker \in {dest.Result.val[pair]} :
                /\ ticker.Ask.Price = WireDecimal(wire["a"], 0)
                /\ ticker.Ask.Timestamp # ZeroTime
                /\ ticker.Ask.Volume = ZeroDecimal
                /\ ticker.Bid.Price = WireDecimal(wire["b"], 0)
                /\ ticker.Bid.Timestamp # ZeroTime
                /\ ticker.Bid.Volume = ZeroDecimal
                /\ ticker.LastClose.Price = WireDecimal(wire["c"], 0)
                /\ ticker.LastClose.Volume = WireDecimal(wire["c"], 1)

\* C17, amended: Ask and Bid take their price from index 0 and their Volume
\* from index 2, and their Timestamp stays the zero time; LastClose takes
\* its price from index 0 and its volume from index 1.
C17_Index2IsVolume ==
    TickersParsed =>
        /\ TickersStored
        /\ \A pair \in DOMAIN Val(WireResult(payload)) :
              \E wire \in {Val(Val(WireResult(payload))[pair])} :
              \E ticker \in {dest.Result.val[pair]} :
                /\ ticker.Ask.Price = WireDecimal(wire["a"], 0)
                /\ ticker.Ask.Volume = WireDecimal(wire["a"], 2)
                /\ ticker.Ask.Timestamp = ZeroTime
                /\ ticker.Bid.Price = WireDecimal(wire["b"], 0)
                /\ ticker.Bid.Volume = WireDecimal(wire["b"], 2)
                /\ ticker.Bid.Timestamp = ZeroTime
                /\ ticker.LastClose.Price = WireDecimal(wire["c"], 0)
                /\ ticker.LastClose.Volume = WireDecimal(wire["c"], 1)

\* a ticker whose ask array differs at indexes 0, 1 and 2 has been parsed
C17_Witness ==
    /\ TickersParsed
    /\ \E pair \in DOMAIN Val(WireResult(payload)) :
          \E a \in {Val(Val(Val(WireResult(payload))[pair])["a"])} :
            /\ Len(a) >= 3
            /\ a[1] # a[2] /\ a[2] # a[3] /\ a[1] # a[3]
            /\ dest.Result.val[pair].Ask.Volume # ZeroDecimal

(***************************************************************************)
(* The positions read by the OHLC decoder                                  *)
(***************************************************************************)

\* a call on *OHLCs that has succeeded
OHLCsParsed ==
    /\ Called
    /\ v.typ = "*kraken.OHLCs"
    /\ ret.status = "ok"
    /\ WireResult(payload).t = "obj"

\* the pairs of the wire result: every key but "last"
WirePairs(p) == DOMAIN Val(WireResult(p)) \ {"last"}

\* the rows of a pair on the wire
WireRows(p, pair) == Val(Val(WireResult(p))[pair])

\* the whole seconds, or the whole count, of a wire number
Whole(j) == Val(j)[1] \div Val(j)[2]

\* the candle of a wire row, element by element
RowMapsTo(row, candle) ==
    /\ candle.Time = UTC(Unix(Whole(row[1])))
    /\ candle.Open = NewFromString(Val(row[2])).val
    /\ candle.High = NewFromString(Val(row[3])).val
    /\ candle.Low = NewFromString(Val(row[4])).val
    /\ candle.Close = NewFromString(Val(row[5])).val
    /\ candle.VolumeWeightedAveragePrice = NewFromString(Val(row[6])).val
    /\ candle.Volume = NewFromString(Val(row[7])).val
    /\ candle.Count = Whole(row[8])

\* the candles of a pair are there, one per row
CandlesStored(pair) ==
    /\ ~dest.Result.isNil
    /\ pair \in DOMAIN dest.Result.val
    /\ GoLen(dest.Result.val[pair]) = Len(WireRows(payload, pair))

\* C18: every 8-element OHLC row [t, o, h, l, c, vwap, vol, n] of every pair
\* maps by position to a candle with Time = epoch t, Open, High, Low, Close,
\* VolumeWeightedAveragePrice = element 5, Volume = element 6, Count = n.
C18_RowsMapPositionally ==
    OHLCsParsed =>
        \A pair \in WirePairs(payload) :
            /\ CandlesStored(pair)
            /\ \A i \in 1..Len(WireRows(payload, pair)) :
                  RowMapsTo(Val(WireRows(payload, pair)[i]), dest.Result.val[pair].val[i])

\* what C18 says of the rows whose t and n are whole numbers
WholeRowsMapPositionally ==
    OHLCsParsed =>
        \A pair \in WirePairs(payload) :
            /\ CandlesStored(pair)
            /\ \A i \in 1..Len(WireRows(payload, pair)) :
                  \E row \in {Val(WireRows(payload, pair)[i])} :
                    (Val(row[1])[2] = 1 /\ Val(row[8])[2] = 1)
                        => RowMapsTo(row, dest.Result.val[pair].val[i])

\* a row whose eight elements all differ has been parsed
DistinctRowParsed ==
    /\ OHLCsParsed
    /\ \E pair \in WirePairs(payload) :
          \E i \in 1..Len(WireRows(payload, pair)) :
            Val(WireRows(payload, pair)[i]) = DistinctRow

(***************************************************************************)
(* The names of the assets                                                 *)
(***************************************************************************)

\* a call on *Assets that has succeeded
AssetsParsed ==
    /\ Called
    /\ v.typ = "*kraken.Assets"
    /\ ret.status = "ok"

\* the keys of the wire result; none when result is absent or null
WireResultKeys(p) ==
    IF WireResult(p).t = "obj" THEN DOMAIN Val(WireResult(p)) ELSE {}

\* C19: after a successful Parse into Assets the keys of the Assets map are
\* the keys of the wire result, and the Asset under a key k has Name = k,
\* whatever its record holds.
C19_AssetsNamedByKey ==
    AssetsParsed =>
        /\ ~dest.Assets.isNil
        /\ DOMAIN dest.Assets.val = WireResultKeys(payload)
        /\ \A k \in WireResultKeys(payload) : dest.Assets.val[k].Name = k

\* assets whose records hold a name of their own, nothing, or null have
\* been parsed
C19_Witness ==
    /\ AssetsParsed
    /\ \E k \in WireResultKeys(payload) :
          /\ Val(WireResult(payload))[k].t = "obj"
          /\ "name" \in DOMAIN Val(Val(WireResult(payload))[k])
    /\ \E k \in WireResultKeys(payload) : Val(WireResult(payload))[k].t = "null"
    /\ Cardinality(DOMAIN dest.Assets.val) = 3

(***************************************************************************)
(* The action and the type of a trade                                      *)
(***************************************************************************)

\* a call on *RecentTrades whose payload is sound: well-formed rows and
\* errors, and a cursor that is absent or a uint64
SoundTradesCall ==
    /\ Called
    /\ v.typ = "*kraken.RecentTrades"
    /\ ~v.ptrNil
    /\ TradeRowsOK(WireResult(payload))
    /\ \/ WireLast(payload).t = "absent"
       \/ WireLast(payload).t = "str" /\ DenotesUint64(Val(WireLast(payload)))
    /\ WireErrors(payload) \in WellFormedErrorArrays \cup {JAbsent}

\* the action and the type of a wire row, against the trade stored for it
ActionAndTypeMapped(row, trade) ==
    /\ Val(row[4]) = <<"b">> => trade.Action = "OrderActionBuy"
    /\ Val(row[4]) = <<"s">> => trade.Action = "OrderActionSell"
    /\ Val(row[4]) \notin {<<"b">>, <<"s">>} => trade.Action = "OrderActionUnknown"
    /\ Val(row[5]) = <<"l">> => trade.Type = "OrderTypeLimit"
    /\ Val(row[5]) = <<"m">> => trade.Type = "OrderTypeMarket"
    /\ Val(row[5]) \notin {<<"l">>, <<"m">>} => trade.Type = "OrderTypeUnknown"

\* C20: in every RecentTrades row, action "b" is Buy, "s" is Sell and any
\* other string Unknown; type "l" is Limit, "m" is Market and any other
\* string Unknown; an action or a type that is not recognized never makes
\* Parse fail.
C20_ActionAndType ==
    SoundTradesCall =>
        /\ ret.status = "ok"
        /\ ~dest.Trades.isNil
        /\ \A pair \in WirePairs(payload) :
              /\ pair \in DOMAIN dest.Trades.val
              /\ GoLen(dest.Trades.val[pair]) = Len(WireRows(payload, pair))
              /\ \A i \in 1..Len(WireRows(payload, pair)) :
                    ActionAndTypeMapped(Val(WireRows(payload, pair)[i]),
                                        dest.Trades.val[pair].val[i])

\* rows with an action and a type that are not recognized, an upper-case
\* "B" among them, have been parsed
C20_Witness ==
    /\ SoundTradesCall
    /\ ret.status = "ok"
    /\ \E pair \in WirePairs(payload) :
          \E i \in 1..Len(WireRows(payload, pair)) :
            /\ Val(Val(WireRows(payload, pair)[i])[4]) = <<"B">>
            /\ dest.Trades.val[pair].val[i].Action = "OrderActionUnknown"
            /\ dest.Trades.val[pair].val[i].Type = "OrderTypeUnknown"

(***************************************************************************)
(* The dispatch on the destination's type                                  *)
(***************************************************************************)

\* what the decoder of a result type, run alone, makes of a call
DecoderOutcome(typ, p, ptrNil, parsed, ord) ==
    CASE typ = "*kraken.Time" -> parsePublicTime(p, ptrNil, parsed)
      [] typ = "*kraken.SystemStatus" -> parseSystemStatus(p, ptrNil, parsed)
      [] typ = "*kraken.Assets" -> parseAssets(p, ptrNil, parsed)
      [] typ = "*kraken.AssetPairs" -> parseAssetPairs(p, ptrNil, parsed)
      [] typ = "*kraken.Tickers" -> parseTickers(p, ptrNil, parsed, ord)
      [] typ = "*kraken.OHLCs" -> parseOHLCs(p, ptrNil, parsed, ord)
      [] typ = "*kraken.OrderBook" -> parseOrderBook(p, ptrNil, parsed)
      [] typ = "*kraken.RecentTrades" -> parseRecentTrades(p, ptrNil, parsed, ord)
      [] typ = "*kraken.RecentSpreads" -> parseRecentSpreads(p, ptrNil, parsed, ord)

\* C22: the decoder that handles a call is the one of the destination's
\* type, whatever the payload holds: the call ends as that decoder alone
\* ends, and a destination it fills keeps the fields of its type.
C22_DispatchByType ==
    (Called /\ v.typ \in KnownTypes) =>
        /\ Out(ret, dest) = DecoderOutcome(v.typ, payload, v.ptrNil, pre, order)
        /\ ret.status = "ok" => DOMAIN dest = DOMAIN Zero(v.typ)

\* a payload with the result of another endpoint has been parsed with
\* success: the assets of /public/Assets into an *AssetPairs
C22_Witness ==
    /\ Called
    /\ v.typ = "*kraken.AssetPairs"
    /\ ~v.ptrNil
    /\ WireResult(payload) \in OtherEndpointResults
    /\ Sub(Sub(WireResult(payload), "NANO"), "aclass").t = "str"
    /\ ret.status = "ok"
    /\ DOMAIN dest = DOMAIN Zero("*kraken.AssetPairs")

\* the result of /public/Time has been handed to a decoder of another type
TimeResultElsewhere ==
    /\ Called
    /\ v.typ \in KnownTypes \ {"*kraken.Time"}
    /\ Sub(WireResult(payload), "unixtime").t = "num"

(***************************************************************************)
(* Elements of the wrong JSON type inside result                           *)
(***************************************************************************)

\* the rows of a pair, when the pair's value is an array of arrays
ArrayRows(j) ==
    IF j.t = "arr" THEN {r \in {Val(j)[i] : i \in 1..Len(Val(j))} : r.t = "arr"} ELSE {}

\* a "last" cursor of the wrong type for the endpoint
WrongCursor(typ, r) ==
    /\ r.t = "obj"
    /\ \/ typ \in {"*kraken.OHLCs", "*kraken.RecentSpreads"} /\ Sub(r, "last").t = "str"
       \/ typ = "*kraken.RecentTrades" /\ Sub(r, "last").t = "num"

\* a pair whose value is no array
WrongPair(typ, r) ==
    /\ typ \in {"*kraken.OHLCs", "*kraken.RecentTrades", "*kraken.RecentSpreads"}
    /\ r.t = "obj"
    /\ \E k \in DOMAIN Val(r) \ {"last"} : Val(r)[k].t \in {"num", "str", "obj"}

\* a number where an OHLC row holds a price string, or a string where an
\* order-book level holds a price number
WrongElement(typ, r) ==
    /\ r.t = "obj"
    /\ \/ /\ typ = "*kraken.OHLCs"
          /\ \E k \in DOMAIN Val(r) \ {"last"} : \E row \in ArrayRows(Val(r)[k]) :
                Len(Val(row)) >= 8 /\ \E i \in 2..7 : Val(row)[i].t = "num"
       \/ /\ typ = "*kraken.OrderBook"
          /\ \E k \in DOMAIN Val(r) : \E f \in {"asks", "bids"} :
                \E row \in ArrayRows(Sub(Val(r)[k], f)) :
                    Len(Val(row)) >= 3 /\ Val(row)[1].t = "str"

\* a call whose result holds a value of the wrong JSON type
WrongTypeParsed ==
    /\ Called
    /\ v.typ \in KnownTypes /\ ~v.ptrNil
    /\ \/ WrongCursor(v.typ, WireResult(payload))
       \/ WrongPair(v.typ, WireResult(payload))
       \/ WrongElement(v.typ, WireResult(payload))

\* C23: a positional element or a cursor of the wrong JSON type makes Parse
\* return ErrParse; Parse never crashes on a shape mismatch inside result.
C23_WrongTypeIsErrParse ==
    WrongTypeParsed => ret.status = "error" /\ ret.wraps = "ErrParse"

\* a call with a wrong cursor, with a wrong pair, with a wrong element has
\* ended in a panic
WrongCursorPanics ==
    WrongTypeParsed /\ WrongCursor(v.typ, WireResult(payload)) /\ ret.status = "panic"

WrongPairPanics ==
    WrongTypeParsed /\ WrongPair(v.typ, WireResult(payload)) /\ ret.status = "panic"

WrongElementPanics ==
    WrongTypeParsed /\ WrongElement(v.typ, WireResult(payload)) /\ ret.status = "panic"

(***************************************************************************)
(* The reserved key "last"                                                 *)
(***************************************************************************)

\* the per-pair map of a destination of a ranged type
PairMap(typ, d) ==
    CASE typ = "*kraken.OHLCs" -> d.Result
      [] typ = "*kraken.RecentTrades" -> d.Trades
      [] typ = "*kraken.RecentSpreads" -> d.Spreads

\* a call on *OHLCs, *RecentTrades or *RecentSpreads that has succeeded
RangedParsed ==
    /\ Called
    /\ v.typ \in {"*kraken.OHLCs", "*kraken.RecentTrades", "*kraken.RecentSpreads"}
    /\ ret.status = "ok"

\* C24: for OHLC, RecentTrades and RecentSpreads the key "last" never
\* appears as a pair: after a successful Parse the keys of the per-pair map
\* are the keys of the wire result without "last", and each pair holds as
\* many entries as its wire array.
C24_LastIsNoPair ==
    RangedParsed =>
        /\ ~PairMap(v.typ, dest).isNil
        /\ DOMAIN PairMap(v.typ, dest).val = WireResultKeys(payload) \ {"last"}
        /\ \A k \in WireResultKeys(payload) \ {"last"} :
              GoLen(PairMap(v.typ, dest).val[k]) = Len(WireRows(payload, k))

\* a result with "last", two pairs and two rows under one of them has been
\* parsed
C24_Witness ==
    /\ RangedParsed
    /\ "last" \in WireResultKeys(payload)
    /\ Cardinality(DOMAIN PairMap(v.typ, dest).val) = 2
    /\ \E k \in DOMAIN PairMap(v.typ, dest).val : GoLen(PairMap(v.typ, dest).val[k]) = 2

(***************************************************************************)
(* The destination after a success, against the payload alone              *)
(***************************************************************************)

\* a call on a result type that has succeeded
KnownParsed ==
    /\ Called
    /\ v.typ \in KnownTypes
    /\ ret.status = "ok"

\* what the same payload, ranged in the same order, leaves in a
\* destination that was the zero value
IntoZero == Parse(payload, v, ZeroDest(v), order).dest

\* C25: after a successful Parse the destination is a function of the
\* payload alone: the destination, whatever it held, is equal to what the
\* payload leaves in a zero-valued destination.
C25_DestinationFromPayloadAlone ==
    KnownParsed => dest = IntoZero

\* what C25 says of the types without a cursor: their decoders overwrite
\* the whole destination
WholeDestinationOverwritten ==
    (KnownParsed /\ v.typ \notin {"*kraken.OHLCs", "*kraken.RecentTrades", "*kraken.RecentSpreads"})
        => dest = IntoZero

\* what C25 says of everything but LastID
AllButCursorOverwritten ==
    (KnownParsed /\ v.typ \in {"*kraken.OHLCs", "*kraken.RecentTrades", "*kraken.RecentSpreads"})
        => [dest EXCEPT !.LastID = 0] = [IntoZero EXCEPT !.LastID = 0]

\* a used destination has been parsed into with a payload that succeeds
UsedDestinationParsed ==
    KnownParsed /\ pre # ZeroDest(v)

(***************************************************************************)
(* Concurrent calls, checked under SpecConcurrent                          *)
(***************************************************************************)

\* how the call of a caller ends when it runs alone
Alone(c) ==
    Parse(calls.call[c].payload, calls.call[c].v, calls.call[c].pre, calls.call[c].order)

OperationCalled ==
    /\ client.stage = "made"
    /\ client.called > 0
    /\ ~(client.last.op \in PairsRequired /\ Len(client.last.args.pairs) = 0)

\* C27: on a client built with the dry-run option every operation returns
\* ErrDryRun with a zero-valued result, and no request is ever executed.
C27_DryRunNeverExecutes ==
    (client.stage = "made" /\ client.built /\ client.c.dryRun) =>
        /\ client.sent = 0
        /\ OperationCalled =>
              /\ client.last.out.err = "ErrDryRun"
              /\ client.last.out.value = Zero(TypeOf(client.last.op))

\* what C27 says of the requests alone: a dry-run client executes none
DryRunSendsNothing ==
    (client.stage = "made" /\ client.built /\ client.c.dryRun) => client.sent = 0

\* what C27 says of the clients whose base URL parses
DryRunWithParseableBaseURL ==
    (/\ client.stage = "made" /\ client.built /\ client.c.dryRun
     /\ URLParse(client.c.baseURL)
     /\ OperationCalled)
        => /\ client.last.out.err = "ErrDryRun"
           /\ client.last.out.value = Zero(TypeOf(client.last.op))

\* an operation on a dry-run client has ended with another error
DryRunOtherError ==
    /\ client.stage = "made" /\ client.built /\ client.c.dryRun
    /\ OperationCalled
    /\ client.last.out.err # "ErrDryRun"

\* an operation has handed its request to the transport
RequestExecuted ==
    /\ client.stage = "made"
    /\ client.called > 0
    /\ client.last.out.sent

\* the request carries the pairs, and the since that was supplied
CarriesArguments(op, args, req) ==
    /\ (op \in TakesPairs /\ Len(args.pairs) > 0) =>
          /\ "pairs" \in DOMAIN req.RawQuery
          /\ QueryUnescape(req.RawQuery["pairs"]) = Join(args.pairs, ",")
    /\ (op \in TakesSince /\ args.since # NoSince) =>
          /\ "since" \in DOMAIN req.RawQuery
          /\ req.RawQuery["since"] = FormatUint(args.since[1])

\* C28: every operation that takes pairs or a since cursor transmits them:
\* the request it executes carries the comma-joined pairs, and the since
\* value when one is supplied, in its query string.
C28_QueryCarriesArguments ==
    RequestExecuted =>
        CarriesArguments(client.last.op, client.last.args, client.last.out.req)

\* what C28 says of AssetPairs, OHLC and OrderBook
EncodedQueryCarriesArguments ==
    (RequestExecuted /\ client.last.op \in SetsRawQuery) =>
        CarriesArguments(client.last.op, client.last.args, client.last.out.req)

\* RecentTrades or RecentSpreads has executed a request for two pairs since
\* a cursor
TradesRequestExecuted ==
    /\ RequestExecuted
    /\ client.last.op \in {"RecentTrades", "RecentSpreads"}
    /\ Len(client.last.args.pairs) = 2
    /\ client.last.args.since # NoSince

\* the first option with a value that does not pass its check, if any
Rejected(o) ==
    \/ o.opt = "HTTPClientWithSecret" /\ ~Base64Decodes(o.arg)
    \/ o.opt = "HTTPClientWithBaseURL" /\ ~URLParse(o.arg)

FirstRejected(opts) ==
    IF \E i \in 1..Len(opts) : Rejected(opts[i])
    THEN opts[CHOOSE i \in 1..Len(opts) :
                Rejected(opts[i]) /\ \A j \in 1..(i - 1) : ~Rejected(opts[j])]
    ELSE [opt |-> "", arg |-> <<>>]

\* C29: the options validate the value they are given: with a secret that
\* is no base64 NewHTTPClient fails with "invalid secret" and returns no
\* client, with a base URL that does not parse it fails, and a rejected
\* value is never stored in a client.
C29_OptionsValidate ==
    client.stage = "made" =>
        /\ FirstRejected(client.opts).opt = "HTTPClientWithSecret" =>
              ~client.built /\ client.err = "invalid secret"
        /\ FirstRejected(client.opts).opt = "HTTPClientWithBaseURL" =>
              ~client.built /\ client.err = "url.Parse"
        /\ client.built =>
              Base64Decodes(client.c.secret) /\ URLParse(client.c.baseURL)

\* a client has been built that holds a secret that is no base64
InvalidSecretStored ==
    client.stage = "made" /\ client.built /\ ~Base64Decodes(client.c.secret)

\* a client has been built that holds a base URL that does not parse
InvalidBaseURLStored ==
    client.stage = "made" /\ client.built /\ ~URLParse(client.c.baseURL)

\* NewHTTPClient has refused a valid value because of the one stored before
ValidValueRefused ==
    /\ client.stage = "made" /\ ~client.built
    /\ ~Rejected(client.opts[Len(client.opts)])

-----------------------------------------------------------------------------
(* Properties of the instrumentation client, checked under SpecInstrumented *)

\* an instrumented operation has been called
InstrumentedCalled == instrumented.called > 0

\* the count of a label went up by exactly one, or stayed, over the last call
CountedOnce(vec, yes) ==
    /\ ~instrumented.last.before[vec].nil
    /\ ~instrumented.last.out.metrics[vec].nil
    /\ instrumented.last.out.metrics[vec].at[instrumented.last.op]
         = instrumented.last.before[vec].at[instrumented.last.op] + (IF yes THEN 1 ELSE 0)

\* C26: every instrumented operation increments the call counter exactly
\* once before it invokes the inner client, invokes the inner client exactly
\* once with the caller's arguments, increments the error counter exactly
\* when the inner client returned an error, and returns the inner client's
\* value and error unchanged.
C26_InstrumentedOnce ==
    InstrumentedCalled =>
        /\ ~instrumented.last.out.panic
        /\ instrumented.last.out.events
             = <<Event("operationCount.Inc", instrumented.last.op, NoArgs),
                 Event("inner", instrumented.last.op, instrumented.last.args)>>
               \o (IF instrumented.last.inner.err # ""
                   THEN <<Event("errorCount.Inc", instrumented.last.op, NoArgs)>> ELSE <<>>)
        /\ CountedOnce("operationCount", TRUE)
        /\ CountedOnce("errorCount", instrumented.last.inner.err # "")
        /\ instrumented.last.out.value = instrumented.last.inner.value
        /\ instrumented.last.out.err = instrumented.last.inner.err

\* with the package variables as declared every instrumented operation ends
\* in a nil pointer dereference before it counts or invokes anything
NilVectorsPanic ==
    InstrumentedCalled =>
        /\ instrumented.last.out.panic
        /\ instrumented.last.out.events = <<>>
        /\ instrumented.metrics = PackageMetrics

\* an instrumented operation over an inner client that would have returned
\* an error has ended
InstrumentedOverFailingInner ==
    InstrumentedCalled /\ instrumented.last.inner.err # ""


============================================================================
